---- MODULE Spec2Model ----
(***************************************************************************)
(* exaMCP: the analysis request path of the desktop backend.               *)
(*                                                                         *)
(* App.AnalyzeExcelFile (backend/main.go) is called by the frontend, each  *)
(* call on a goroutine of its own and without a.mutex.  It snapshots the   *)
(* limit options from a.config, looks the workbook up in the file cache    *)
(* (keyed by excel.HashFilePath of the path), calls the analysis engine    *)
(* excel.AnalyzeExcelFile(filePath, options) on a miss, saves the result   *)
(* and records it in the session.                                          *)
(*                                                                         *)
(* The engine itself (package backend/service/excel) is not among the      *)
(* sources; its per-sheet scheduling is modelled from spec.md sections 4.6 *)
(* and 5.  What reaches the engine is decided by the call sites in         *)
(* backend/main.go.                                                        *)
(***************************************************************************)
EXTENDS Integers, Sequences, FiniteSets, TLC

\* ---------------------------------------------------------------- bounds
NumRequests == 2
NumSheets == 2
MaxConc == 2
MaxCalls == 2
GridRows == 4
GridCols == 3
MaxDataRows == 3
MaxColIndex == 702
MaxTasks == 1
MaxQueued == 3
MaxNumeral == 20
MaxUpdates == 1

\* ------------------------------------------------------ program constants
DefaultMaxSheets == 20
DefaultMaxRows == 5000
DefaultMaxSamples == 5
DefaultMaxSampleRows == 3
DefaultMaxConcurrency == 4

\* ------------------------------------------------------------ input data
Requests == 1..NumRequests

Paths == {"a.xlsx", "b.xlsx"}

\* Number of worksheets of each workbook.
SheetCount(p) == IF p = "a.xlsx" THEN NumSheets ELSE 1

\* The regions the per-sheet stages yield for a sheet, ordered by top-left cell
\* in row-major order (spec.md 4.1), with headers, types and samples filled in
\* and no relationship yet.
RegionsOf(p, s) ==
    IF s = 1
    THEN << [ SheetName |-> s, Row |-> 1, Col |-> 4,
              Headers |-> << "CustomerName" >>,
              DataTypes |-> [ h \in { "CustomerName" } |-> "Text" ],
              SampleData |-> << << "Alice" >>, << "Alice" >>, << "Bob" >> >>,
              Relationships |-> << >> ],
            [ SheetName |-> s, Row |-> 5, Col |-> 1,
              Headers |-> << "Total" >>,
              DataTypes |-> [ h \in { "Total" } |-> "Number" ],
              SampleData |-> << << "42" >> >>,
              Relationships |-> << >> ] >>
    ELSE << [ SheetName |-> s, Row |-> 1, Col |-> 1,
              Headers |-> << "Name" >>,
              DataTypes |-> [ h \in { "Name" } |-> "Text" ],
              SampleData |-> << << "Alice" >>, << "Bob" >>, << "Carol" >> >>,
              Relationships |-> << >> ] >>

Min(a, b) == IF a < b THEN a ELSE b

\* A nil error, a nil *ExcelStructureAnalysis, a cache file that does not exist.
Nil == "nil"
NilAnalysis == [ isNil |-> TRUE ]
Absent == [ isAbsent |-> TRUE ]
NoOptions == [ isNone |-> TRUE ]
NotReturned == [ analysis |-> NilAnalysis, err |-> "not returned" ]

\* ----------------------------------------------------------------- state
VARIABLES
    config,         \* a.config: the active configuration
    viperSettings,  \* viper's in-memory settings (viper.Set / viper.Unmarshal)
    updateErr,      \* what the last UpdateAppConfig call returned
    updPc,          \* position of the UpdateAppConfig call in progress
    updCalls,       \* number of UpdateAppConfig calls the frontend has made
    decoded,        \* number of settings viper.Unmarshal has decoded into a.config
    cache,          \* the cache directory: cache file -> stored analysis
    cancelled,      \* the shutdown context has been cancelled
    excelAnalysis,  \* a.excelAnalysis
    filePath,       \* a.filePath
    calls,          \* number of AnalyzeExcelFile calls the frontend has made
    ingestCalls,    \* number of excel.AnalyzeExcelFile calls made so far
    pc,             \* per request: position in App.AnalyzeExcelFile
    reqPath,        \* per request: the filePath argument
    reqOpts,        \* per request: the options built from a.config
    cacheFile,      \* per request: local variable cacheFile
    cacheRead,      \* per request: outcome of excel.LoadAnalysisFromCache
    cacheWrite,     \* per request: outcome of excel.SaveAnalysisToCache
    sheetSt,        \* per request: engine's per-sheet unit of work
    completed,      \* per request: sheets in the order their workers finished
    poolSize,       \* per request: the size of the engine's worker pool
    lateStarts,     \* per request: the sheets that started with the signal raised
    reqAnalysis,    \* per request: local variable analysis
    reqErr,         \* per request: local variable err
    ret,            \* per request: what the call returned
    reqTask,        \* per request: the ID of local variable task
    events,         \* the task events emitted to the frontend, in order
    grid,           \* RegionSegmenter: the occupied cells of the sheet at hand
    segRegions,     \* RegionSegmenter: the regions emitted for it
    segmented,      \* RegionSegmenter: the segmentation pass has run
    regionRows,     \* the data rows of the region at hand, in document order
    maxSamples,     \* the configured maximum of sample rows (MaxSamples)
    dataRange,      \* the region's DataRange as the stages fill it in
    regionPc,       \* the stage the region has passed
    promptData,     \* the template data built from the DataRange for a prompt
    colIndex,       \* columnLetterFromIndex: the index argument
    colLetter,      \* columnLetterFromIndex: the string returned
    lettered,       \* columnLetterFromIndex has returned
    relIn,          \* RelationshipInferrer: the regions of the workbook
    relOut,         \* RelationshipInferrer: the regions with their relationships
    related,        \* RelationshipInferrer has run
    configLLM,      \* a.config.LLM
    preview,        \* the last PreviewRegion call: its argument and what it returned
    appConfig,      \* the last GetAppConfig call: what it returned
    currentRegion,  \* a.currentRegion
    setRet,         \* the last SetCurrentRegion call: its argument and what it returned
    picked,         \* the last SelectExcelFile call: what it returned
    gen,            \* GenerateVBAScript: position, task and what the call returned
    genCalls,       \* number of GenerateVBAScript calls the frontend has made
    llmCalls,       \* number of a.llmClient.Generate calls made so far
    exec,           \* ExecuteVBA: position, task and what the call returned
    execCalls,      \* number of ExecuteVBA calls the frontend has made
    taskQueue,      \* a.taskQueue: the tasks waiting in the channel, oldest first
    enqueued,       \* the tasks placed on a.taskQueue so far, in order
    proc            \* taskProcessor: position, the task at hand and its Error

\* The state of the application and of its analysis requests.
appVars == << config, viperSettings, updateErr, updPc, updCalls, decoded, cache, cancelled,
              excelAnalysis, filePath, calls, ingestCalls, pc, reqPath, reqOpts, cacheFile,
              cacheRead, cacheWrite,
              sheetSt, completed, poolSize, lateStarts, reqAnalysis, reqErr, ret, reqTask,
              events >>

\* The state of the per-sheet and per-region stages taken on their own.
segVars == << grid, segRegions, segmented >>
regionVars == << regionRows, maxSamples, dataRange, regionPc, promptData >>
letterVars == << colIndex, colLetter, lettered >>
relVars == << relIn, relOut, related >>
stageVars == << segVars, regionVars, letterVars, relVars >>

\* The state of the handlers beside AnalyzeExcelFile.
selectVars == << currentRegion, setRet >>
genVars == << gen, genCalls, llmCalls >>
execVars == << exec, execCalls >>
procVars == << taskQueue, enqueued, proc >>
handlerVars == << configLLM, preview, appConfig, selectVars, picked, genVars, execVars,
                 procVars >>

vars == << appVars, stageVars, handlerVars >>

taskVars == << reqTask, events >>
sessionVars == << excelAnalysis, filePath >>
localVars == << reqPath, reqOpts, cacheFile, cacheRead, cacheWrite, reqAnalysis, reqErr, ret >>
configVars == << config, viperSettings, updateErr, updPc, updCalls, decoded >>
engineVars == << sheetSt, completed, poolSize, lateStarts >>

\* ----------------------------------------------------------- configuration
\* excel.AnalysisOptions as built at main.go:441-446.
AnalysisOptions(cfg) ==
    [ MaxSheets   |-> cfg.Excel.MaxSheets,
      MaxRows     |-> cfg.Excel.MaxRows,
      MaxSamples  |-> cfg.Excel.MaxSamples,
      UseAdvanced |-> cfg.Excel.UseAdvanced ]

\* The settings keys behind the fields of Config that the model follows
\* (main.go:30-69), in the order of the fields.
KeyOrder ==
    << "llm.provider", "llm.api_key",
       "excel.max_sheets", "excel.max_rows", "excel.max_samples",
       "excel.use_advanced_detection",
       "ui.theme",
       "system.dev_mode", "system.max_concurrency", "system.cache_enabled",
       "system.cache_dir" >>

Keys == { KeyOrder[i] : i \in 1..Len(KeyOrder) }

\* A settings value as json.Unmarshal or the config file hands it to viper: a
\* number, a boolean or a string.
Num(n) == [ num |-> n ]
Bool(b) == [ bool |-> b ]
Str(s) == [ str |-> s ]

\* strconv.ParseBool: the strings that read as true; "0", "f", "false" and the
\* like read as false, and so does the empty string.
TrueStrings == { "1", "t", "T", "TRUE", "true", "True" }

DigitText(d) ==
    CASE d = 0 -> "0" [] d = 1 -> "1" [] d = 2 -> "2" [] d = 3 -> "3" [] d = 4 -> "4"
      [] d = 5 -> "5" [] d = 6 -> "6" [] d = 7 -> "7" [] d = 8 -> "8" [] d = 9 -> "9"

RECURSIVE NumText(_)
\* The decimal text of a natural number.
NumText(n) == IF n < 10 THEN DigitText(n) ELSE NumText(n \div 10) \o DigitText(n % 10)

\* Numerals that name their base by a prefix, with their values.
PrefixedNumerals ==
    { << "0x10", 16 >>, << "0X1f", 31 >>, << "0b11", 3 >>, << "0o17", 15 >>, << "017", 15 >> }

\* The numerals that strconv.ParseInt(s, 0, 64) reads, with their values: the
\* decimal numerals up to MaxNumeral, signed or not, and the prefixed ones.
Numerals ==
    { << NumText(n), n >> : n \in 0..MaxNumeral }
    \cup { << "+" \o NumText(n), n >> : n \in 0..MaxNumeral }
    \cup { << "-" \o NumText(n), 0 - n >> : n \in 0..MaxNumeral }
    \cup PrefixedNumerals

\* A string as an int field takes it: the empty string is 0, a numeral is its
\* value, and any other string cannot be decoded.
ParseInt(s) ==
    IF s = "" THEN [ ok |-> TRUE, value |-> 0 ]
    ELSE IF \E q \in Numerals : q[1] = s
    THEN [ ok |-> TRUE, value |-> (CHOOSE q \in Numerals : q[1] = s)[2] ]
    ELSE [ ok |-> FALSE, value |-> 0 ]

\* viper.Unmarshal decodes each field with weakly typed input; a value that
\* cannot be decoded is reported and leaves the field with its zero value,
\* the other fields being decoded all the same.
DecodeInt(v) ==
    IF "num" \in DOMAIN v THEN v.num
    ELSE IF "bool" \in DOMAIN v THEN (IF v.bool THEN 1 ELSE 0)
    ELSE ParseInt(v.str).value

DecodeBool(v) ==
    IF "bool" \in DOMAIN v THEN v.bool
    ELSE IF "num" \in DOMAIN v THEN v.num # 0
    ELSE v.str \in TrueStrings

DecodeString(v) ==
    IF "str" \in DOMAIN v THEN v.str
    ELSE IF "bool" \in DOMAIN v THEN (IF v.bool THEN "1" ELSE "0")
    ELSE IF v.num < 0 THEN "-" \o NumText(0 - v.num) ELSE NumText(v.num)

\* main.go:196: viper.Unmarshal(a.config), the sections Excel, UI and System.
Unmarshal(settings) ==
    [ Excel  |-> [ MaxSheets   |-> DecodeInt(settings["excel.max_sheets"]),
                   MaxRows     |-> DecodeInt(settings["excel.max_rows"]),
                   MaxSamples  |-> DecodeInt(settings["excel.max_samples"]),
                   UseAdvanced |-> DecodeBool(settings["excel.use_advanced_detection"]) ],
      UI     |-> [ Theme |-> DecodeString(settings["ui.theme"]) ],
      System |-> [ DevMode        |-> DecodeBool(settings["system.dev_mode"]),
                   MaxConcurrency |-> DecodeInt(settings["system.max_concurrency"]),
                   CacheEnabled   |-> DecodeBool(settings["system.cache_enabled"]),
                   CacheDir       |-> DecodeString(settings["system.cache_dir"]) ] ]

\* main.go:196: viper.Unmarshal(a.config), the section LLM.
UnmarshalLLM(settings) ==
    [ Provider |-> DecodeString(settings["llm.provider"]),
      APIKey   |-> DecodeString(settings["llm.api_key"]) ]

\* main.go:195: a.config = &Config{}, every field at its zero value.
EmptyConfig ==
    [ Excel  |-> [ MaxSheets |-> 0, MaxRows |-> 0, MaxSamples |-> 0, UseAdvanced |-> FALSE ],
      UI     |-> [ Theme |-> "" ],
      System |-> [ DevMode |-> FALSE, MaxConcurrency |-> 0, CacheEnabled |-> FALSE,
                   CacheDir |-> "" ] ]

EmptyLLM == [ Provider |-> "", APIKey |-> "" ]

\* A key that has no value in viper leaves its field at the zero value, as
\* the zero of the field's type does.
ZeroSettings ==
    [ k \in Keys |->
        IF k \in { "llm.provider", "llm.api_key", "ui.theme", "system.cache_dir" } THEN Str("")
        ELSE IF k \in { "excel.use_advanced_detection", "system.dev_mode",
                        "system.cache_enabled" } THEN Bool(FALSE)
        ELSE Num(0) ]

\* viper.Unmarshal writes into the Config a.config points to, field after
\* field: the settings as they stand in a.config once n fields are decoded.
Decoded(settings, n) ==
    [ k \in Keys |->
        IF \E i \in 1..n : KeyOrder[i] = k THEN settings[k] ELSE ZeroSettings[k] ]

\* The cache directory below the working directory.
DefaultCacheDir == "cache"

\* main.go:147-169: the defaults loadConfig sets; no API key is set.
DefaultSettings ==
    [ k \in Keys |->
        CASE k = "llm.provider"                 -> Str("openrouter")
          [] k = "llm.api_key"                  -> Str("")
          [] k = "excel.max_sheets"             -> Num(DefaultMaxSheets)
          [] k = "excel.max_rows"               -> Num(DefaultMaxRows)
          [] k = "excel.max_samples"            -> Num(DefaultMaxSamples)
          [] k = "excel.use_advanced_detection" -> Bool(TRUE)
          [] k = "ui.theme"                     -> Str("light")
          [] k = "system.dev_mode"              -> Bool(FALSE)
          [] k = "system.max_concurrency"       -> Num(DefaultMaxConcurrency)
          [] k = "system.cache_enabled"         -> Bool(TRUE)
          [] k = "system.cache_dir"             -> Str(DefaultCacheDir) ]

\* main.go:857: viper.Set for every section.key of the update; u maps the
\* keys of the update to their values.
Set(settings, u) ==
    [ k \in Keys |-> IF k \in DOMAIN u THEN u[k] ELSE settings[k] ]

\* loadConfig at start-up: the defaults, overridden by the config file.
LoadedSettings ==
    { Set(DefaultSettings, ("system.cache_enabled" :> Bool(ce))) : ce \in BOOLEAN }

\* The updates the frontend sends: to the sheet limit, one of them wrongly
\* typed; to advanced detection; and to the other settings.
SheetsUpdates ==
    { ("excel.max_sheets" :> Num(1)), ("excel.max_sheets" :> Num(DefaultMaxSheets)) }

AdvancedUpdates == { ("excel.use_advanced_detection" :> Bool(adv)) : adv \in BOOLEAN }

ConfigUpdates ==
    { ("excel.max_sheets" :> Num(1)),
      ("excel.max_sheets" :> Str("many")),
      ("excel.max_rows" :> Str("20")),
      ("excel.use_advanced_detection" :> Bool(FALSE)),
      ("system.cache_enabled" :> Bool(FALSE)),
      ("llm.provider" :> Str("openai")),
      ("ui.theme" :> Str("dark")) @@ ("system.dev_mode" :> Bool(TRUE)) }

\* --------------------------------------------------------------- the cache
\* excel.HashFilePath: a hash of the path string alone.
HashFilePath(p) == IF p = "a.xlsx" THEN 10 ELSE 11

\* cacheFile := filepath.Join(CacheDir, fmt.Sprintf("%x.json", HashFilePath(filePath)))
CacheFile(dir, p) == << dir, HashFilePath(p) >>

\* The directories a cache file is looked for in: the configured one, and the
\* working directory when CacheDir is empty.
CacheDirs == { "", DefaultCacheDir }

CacheFiles == { CacheFile(dir, p) : dir \in CacheDirs, p \in Paths }

\* The call has built no cache file name.
NoFile == << "", 0 >>

\* excel.LoadAnalysisFromCache: the stored analysis, or an error when the file
\* is missing or cannot be read.
LoadAnalysisFromCache(file, readOK) ==
    IF cache[file] = Absent THEN [analysis |-> NilAnalysis, err |-> "ErrCacheMiss"]
    ELSE IF ~readOK THEN [analysis |-> NilAnalysis, err |-> "ErrCacheRead"]
    ELSE [analysis |-> cache[file], err |-> Nil]

\* -------------------------------------------------- RelationshipInferrer
\* A region is a record with the fields SheetName, Row, Col (its top-left
\* cell), Headers, DataTypes, SampleData and Relationships.

\* The reference by which a relationship names a region.
RangeRef(rg) == << rg.SheetName, rg.Row, rg.Col >>

\* The distinct sampled values of column c of region rg.
ColumnValues(rg, c) == { rg.SampleData[i][c] : i \in 1..Len(rg.SampleData) }

ColumnType(rg, c) == rg.DataTypes[rg.Headers[c]]

\* Both Text, or both Number/Currency.
Compatible(t1, t2) ==
    \/ t1 = "Text" /\ t2 = "Text"
    \/ t1 \in { "Number", "Currency" } /\ t2 \in { "Number", "Currency" }

\* Column c of rg holds some value of S in more than one sampled row.
RepeatsIn(rg, c, S) ==
    \E i, k \in 1..Len(rg.SampleData) :
        i # k /\ rg.SampleData[i][c] = rg.SampleData[k][c] /\ rg.SampleData[i][c] \in S

Shared(rs, i, a, j, b) == ColumnValues(rs[i], a) \cap ColumnValues(rs[j], b)

\* Faulty variant of DistinctRegions: a region is paired with itself as well.
AnyRegions(i, j) == TRUE

\* Only pairs of distinct regions are compared.
DistinctRegions(i, j) == i # j

\* The overlap ratio |values(a) n values(b)| / |values(a)| reaches 0.8 and at
\* least two distinct values take part.
Qualifies(rs, i, a, j, b) ==
    /\ DistinctRegions(i, j)
    /\ << i, a >> # << j, b >>
    /\ Compatible(ColumnType(rs[i], a), ColumnType(rs[j], b))
    /\ Cardinality(Shared(rs, i, a, j, b)) >= 2
    /\ 5 * Cardinality(Shared(rs, i, a, j, b)) >= 4 * Cardinality(ColumnValues(rs[i], a))

\* Faulty variant of WinsDirection: both directions of a pair are reported.
WinsAlways(rs, i, a, j, b) == TRUE

\* Of the two directions of an unordered column pair only one is kept: the one
\* with the higher overlap ratio, and on equal ratios the one whose source
\* comes first.
WinsDirection(rs, i, a, j, b) ==
    Qualifies(rs, j, b, i, a) =>
        LET na == Cardinality(ColumnValues(rs[i], a))
            nb == Cardinality(ColumnValues(rs[j], b))
        IN  \/ na < nb
            \/ na = nb /\ (i < j \/ (i = j /\ a < b))

\* The cardinality kind seen from the source column; "None" when both sides
\* repeat their matched values, so that neither side can serve as the key.
CardinalityKind(rs, i, a, j, b) ==
    LET S    == Shared(rs, i, a, j, b)
        srcN == RepeatsIn(rs[i], a, ColumnValues(rs[i], a))
        tgtN == RepeatsIn(rs[j], b, S)
    IN  IF srcN /\ ~tgtN THEN "ManyToOne"
        ELSE IF ~srcN /\ tgtN THEN "OneToMany"
        ELSE IF ~srcN /\ ~tgtN THEN "OneToOne"
        ELSE "None"

\* The relationships emitted from region i: <<a, j, b>> stands for source
\* column a, target region j, target column b.
Emitted(rs, i) ==
    { q \in UNION { (1..Len(rs[i].Headers)) \X {j} \X (1..Len(rs[j].Headers)) :
                     j \in 1..Len(rs) } :
        /\ Qualifies(rs, i, q[1], q[2], q[3])
        /\ WinsDirection(rs, i, q[1], q[2], q[3])
        /\ CardinalityKind(rs, i, q[1], q[2], q[3]) # "None" }

TripleBefore(p, q) ==
    \/ p[1] < q[1]
    \/ p[1] = q[1] /\ p[2] < q[2]
    \/ p[1] = q[1] /\ p[2] = q[2] /\ p[3] < q[3]

RECURSIVE RelationshipList(_, _, _)
\* The Relationships field of region i: its emitted relationships in column
\* and target order.
RelationshipList(rs, i, todo) ==
    IF todo = {} THEN << >>
    ELSE LET q == CHOOSE x \in todo : \A y \in todo \ {x} : TripleBefore(x, y)
         IN  << [ TargetRange |-> RangeRef(rs[q[2]]),
                  Type        |-> CardinalityKind(rs, i, q[1], q[2], q[3]),
                  SourceField |-> rs[i].Headers[q[1]],
                  TargetField |-> rs[q[2]].Headers[q[3]] ] >>
             \o RelationshipList(rs, i, todo \ {q})

\* RelationshipInferrer: run once over the joined region list.
RelationshipInferrer(rs) ==
    [ i \in 1..Len(rs) |->
        [ rs[i] EXCEPT !.Relationships = RelationshipList(rs, i, Emitted(rs, i)) ] ]

\* ---------------------------------------------------------------- engine
\* Sheets the engine analyses: the workbook's sheets, capped by MaxSheets.
SheetsToAnalyze(p, opts) == Min(opts.MaxSheets, SheetCount(p))

Running(r) == { s \in DOMAIN sheetSt[r] : sheetSt[r][s] = "running" }
Pending(r) == { s \in DOMAIN sheetSt[r] : sheetSt[r][s] = "pending" }
Readable(r) == { s \in DOMAIN sheetSt[r] : sheetSt[r][s] = "ok" }
Unreadable(r) == { s \in DOMAIN sheetSt[r] : sheetSt[r][s] = "failed" }

\* The cancellation signal the engine can observe.  The call
\* excel.AnalyzeExcelFile(filePath, options) hands over neither a context nor a
\* cancel channel, so the engine's signal is never raised.
EngineCancelSignal == FALSE

\* The worker pool has a free worker.
WorkerAvailable(r) == Cardinality(Running(r)) < poolSize[r]

RECURSIVE ConcatInOrder(_, _, _)
\* The join: per-sheet region lists concatenated following the sheet sequence
\* `sheets`, unreadable sheets contributing nothing.
ConcatInOrder(p, st, sheets) ==
    IF sheets = << >> THEN << >>
    ELSE (IF st[Head(sheets)] = "ok" THEN RegionsOf(p, Head(sheets)) ELSE << >>)
         \o ConcatInOrder(p, st, Tail(sheets))

SheetSeq(n) == [ i \in 1..n |-> i ]

\* Mutant of JoinOrder: results are appended as the workers deliver them.
JoinOrderByCompletion(r) == completed[r]

\* The order in which the join walks the per-sheet results: workbook order.
JoinOrder(r) == SheetSeq(Len(sheetSt[r]))

\* After the join RelationshipInferrer runs, if advanced detection is enabled;
\* when it is disabled the relationships stay empty.
WithRelationships(opts, rs) ==
    IF opts.UseAdvanced
    THEN CHOOSE out \in { RelationshipInferrer(joined) : joined \in { rs } } : TRUE
    ELSE rs

\* What the engine returns once every unit of work has finished: the Analysis,
\* or an AnalysisError when no sheet could be read.
EngineResult(r) ==
    IF Readable(r) = {}
    THEN [ analysis |-> NilAnalysis, err |-> "AnalysisError" ]
    ELSE [ analysis |-> [ path       |-> reqPath[r],
                          SheetNames |-> SheetSeq(Len(sheetSt[r])),
                          AllRanges  |-> WithRelationships(reqOpts[r],
                                            ConcatInOrder(reqPath[r], sheetSt[r], JoinOrder(r))),
                          Notes      |-> Unreadable(r) ],
           err |-> Nil ]

\* ---------------------------------------------------------- task events
NoTask == << >>

\* runtime.EventsEmit(a.ctx, "task:start", task), the task pending.
TaskStart(id) == [ name |-> "task:start", task |-> id, status |-> "pending" ]

\* runtime.EventsEmit(a.ctx, "task:update", task).
TaskUpdate(id, status) == [ name |-> "task:update", task |-> id, status |-> status ]

\* The status a handler gives its task once the work has returned.
TaskStatus(err) == IF err # Nil THEN "failed" ELSE "completed"

\* ------------------------------------------------------- AnalyzeExcelFile
\* main.go:479-484: with no error the log line reads len(analysis.SheetNames),
\* which panics on a nil analysis; recoverPanic ends the call there.
LogPanics(analysis, err) == err = Nil /\ analysis = NilAnalysis

\* main.go:461: the result is cached only when the analysis succeeded.
ShouldSave(analysis, err) == err = Nil /\ analysis # NilAnalysis

\* Mutant of ErrAfterSave: a failed cache write becomes the call's error.
ErrAfterSaveChecked(err, writeOK) == IF writeOK THEN err ELSE "ErrCacheWrite"

\* main.go:463: SaveAnalysisToCache's outcome is dropped; err stays what the
\* analysis returned.
ErrAfterSave(err, writeOK) == err

\* Mutant of ReturnValue: per-sheet notes are treated as a failure of the call.
ReturnValueStrict(analysis, err) ==
    IF err # Nil \/ (analysis # NilAnalysis /\ analysis.Notes # {})
    THEN [ analysis |-> NilAnalysis, err |-> "EXCEL_ANALYSIS_FAILED" ]
    ELSE [ analysis |-> analysis, err |-> Nil ]

\* main.go:506-510: the return statement.
ReturnValue(analysis, err) ==
    IF err # Nil
    THEN [ analysis |-> NilAnalysis, err |-> "EXCEL_ANALYSIS_FAILED" ]
    ELSE [ analysis |-> analysis, err |-> Nil ]

\* The sizes the engine's worker pool can have.  spec.md 5 sizes the pool by a
\* configured concurrency limit and spec.md 6 has that limit passed to the core
\* as a value; main.go:441-446 and 460 pass the path and four options, and
\* system.max_concurrency (main.go:66, 167) is read nowhere, so no configured
\* limit reaches the engine and its pool has a size of its own.
EnginePools == 1..MaxConc

\* The engine is entered with the path and the options: every sheet to
\* analyse becomes a pending unit of work.
EnterEngine(r, p, opts) ==
    /\ ingestCalls' = ingestCalls + 1
    /\ \E workers \in EnginePools : poolSize' = [poolSize EXCEPT ![r] = workers]
    /\ sheetSt' = [sheetSt EXCEPT ![r] = [ s \in 1..SheetsToAnalyze(p, opts) |-> "pending" ]]
    /\ completed' = [completed EXCEPT ![r] = << >>]
    /\ lateStarts' = [lateStarts EXCEPT ![r] = {}]

\* The fields of excel.AnalysisOptions in the order main.go:442-445 fills them.
OptionOrder == << "MaxSheets", "MaxRows", "MaxSamples", "UseAdvanced" >>

\* The options before any field has been read from a.config.
ZeroOptions == [ MaxSheets |-> 0, MaxRows |-> 0, MaxSamples |-> 0, UseAdvanced |-> FALSE ]

\* A frontend call AnalyzeExcelFile(p) arrives on a goroutine of its own and
\* tells the frontend that its task has started (main.go:423-438).  Calls are
\* numbered in the order they arrive.
Call(r, p) ==
    /\ pc[r] = "idle"
    /\ calls < MaxCalls
    /\ \A q \in Requests : q < r => pc[q] # "idle"
    /\ calls' = calls + 1
    /\ reqTask' = [reqTask EXCEPT ![r] = << "analyze", calls + 1 >>]
    /\ events' = Append(events, TaskStart(<< "analyze", calls + 1 >>))
    /\ reqPath' = [reqPath EXCEPT ![r] = p]
    /\ reqOpts' = [reqOpts EXCEPT ![r] = ZeroOptions]
    /\ pc' = [pc EXCEPT ![r] = OptionOrder[1]]
    /\ UNCHANGED << stageVars, handlerVars, configVars, cache, cancelled, sessionVars, cacheFile,
                    cacheRead, cacheWrite, ingestCalls, engineVars, reqAnalysis, reqErr, ret >>

\* main.go:442-445: one field of the options is read from a.config.  The four
\* reads take no lock, so loadConfig may refill a.config between any two.
ReadOption(r, k) ==
    /\ pc[r] = OptionOrder[k]
    /\ reqOpts' = [reqOpts EXCEPT ![r][OptionOrder[k]] = config.Excel[OptionOrder[k]]]
    /\ pc' = [pc EXCEPT ![r] = IF k < Len(OptionOrder) THEN OptionOrder[k + 1]
                               ELSE "CacheEnabled"]
    /\ UNCHANGED << stageVars, handlerVars, taskVars, configVars, cache, cancelled, sessionVars,
                    calls, ingestCalls, reqPath, cacheFile, cacheRead, cacheWrite, engineVars,
                    reqAnalysis, reqErr, ret >>

\* main.go:452, 468: the cache switch is read from a.config; with the cache
\* disabled the analysis is run at once.
ReadCacheEnabled(r) ==
    /\ pc[r] = "CacheEnabled"
    /\ IF config.System.CacheEnabled
       THEN /\ pc' = [pc EXCEPT ![r] = "CacheDir"]
            /\ UNCHANGED << ingestCalls, engineVars >>
       ELSE /\ pc' = [pc EXCEPT ![r] = "compute"]
            /\ EnterEngine(r, reqPath[r], reqOpts[r])
    /\ UNCHANGED << stageVars, handlerVars, taskVars, configVars, cache, cancelled, sessionVars,
                    calls, reqPath, reqOpts, cacheFile, cacheRead, cacheWrite, reqAnalysis,
                    reqErr, ret >>

\* main.go:453: the cache directory is read from a.config and the name of the
\* cache file is built.
ReadCacheDir(r) ==
    /\ pc[r] = "CacheDir"
    /\ cacheFile' = [cacheFile EXCEPT ![r] = CacheFile(config.System.CacheDir, reqPath[r])]
    /\ pc' = [pc EXCEPT ![r] = "lookup"]
    /\ UNCHANGED << stageVars, handlerVars, taskVars, configVars, cache, cancelled, sessionVars,
                    calls, ingestCalls, reqPath, reqOpts, cacheRead, cacheWrite, engineVars,
                    reqAnalysis, reqErr, ret >>

\* Mutant of UseCached: the cache is read but the analysis is run regardless.
UseCachedNever(err) == FALSE

\* main.go:456: a successful cache read ends the search for a result.
UseCached(err) == err = Nil

\* main.go:453-460: the cache file is read into (analysis, err); on success the
\* cached analysis is the result, otherwise the analysis is run.
CacheLookup(r, readOK) ==
    /\ pc[r] = "lookup"
    /\ LET file == cacheFile[r]
           got  == LoadAnalysisFromCache(file, readOK)
       IN  /\ reqAnalysis' = [reqAnalysis EXCEPT ![r] = got.analysis]
           /\ reqErr' = [reqErr EXCEPT ![r] = got.err]
           /\ cacheRead' = [cacheRead EXCEPT ![r] =
                              IF got.err = Nil THEN "hit"
                              ELSE IF got.err = "ErrCacheMiss" THEN "miss" ELSE "failed"]
           /\ IF UseCached(got.err)
              THEN /\ pc' = [pc EXCEPT ![r] = "finish"]
                   /\ UNCHANGED << ingestCalls, engineVars >>
              ELSE /\ pc' = [pc EXCEPT ![r] = "compute"]
                   /\ EnterEngine(r, reqPath[r], reqOpts[r])
    /\ UNCHANGED << stageVars, handlerVars, taskVars, configVars, cache, cancelled, sessionVars, calls, reqPath,
                    reqOpts, cacheFile, cacheWrite, ret >>

\* A free worker takes a pending sheet.
StartSheet(r, s) ==
    /\ pc[r] = "compute"
    /\ s \in Pending(r)
    /\ WorkerAvailable(r)
    /\ ~EngineCancelSignal
    /\ sheetSt' = [sheetSt EXCEPT ![r][s] = "running"]
    /\ lateStarts' = [lateStarts EXCEPT ![r] = IF cancelled THEN @ \cup { s } ELSE @]
    /\ UNCHANGED << stageVars, handlerVars, taskVars, configVars, cache, cancelled, sessionVars, calls, ingestCalls, pc,
                    reqPath, reqOpts, cacheFile, cacheRead, cacheWrite, completed, poolSize,
                    reqAnalysis, reqErr, ret >>

\* A worker finishes its sheet: the grid was read and segmented, or GridSource
\* failed for it (IngestError).
FinishSheet(r, s, ok) ==
    /\ pc[r] = "compute"
    /\ s \in Running(r)
    /\ sheetSt' = [sheetSt EXCEPT ![r][s] = IF ok THEN "ok" ELSE "failed"]
    /\ completed' = [completed EXCEPT ![r] = Append(@, s)]
    /\ UNCHANGED << stageVars, handlerVars, taskVars, configVars, cache, cancelled, sessionVars, calls, ingestCalls, pc,
                    reqPath, reqOpts, cacheFile, cacheRead, cacheWrite, poolSize, lateStarts,
                    reqAnalysis, reqErr, ret >>

\* main.go:460-464: excel.AnalyzeExcelFile returns and, on success, the result
\* is saved to the cache file.
AnalysisReturns(r, writeOK) ==
    /\ pc[r] = "compute"
    /\ Pending(r) = {} /\ Running(r) = {}
    /\ LET res  == EngineResult(r)
           file == cacheFile[r]
           save == cacheRead[r] # "none" /\ ShouldSave(res.analysis, res.err)
       IN  /\ reqAnalysis' = [reqAnalysis EXCEPT ![r] = res.analysis]
           /\ reqErr' = [reqErr EXCEPT ![r] =
                           IF save THEN ErrAfterSave(res.err, writeOK) ELSE res.err]
           /\ cache' = IF save /\ writeOK
                       THEN [cache EXCEPT ![file] = res.analysis]
                       ELSE cache
           /\ cacheWrite' = [cacheWrite EXCEPT ![r] =
                               IF ~save THEN "none"
                               ELSE IF writeOK THEN "ok" ELSE "failed"]
    /\ pc' = [pc EXCEPT ![r] = "finish"]
    /\ UNCHANGED << stageVars, handlerVars, taskVars, configVars, cancelled, sessionVars, calls, ingestCalls, reqPath,
                    reqOpts, cacheFile, cacheRead, engineVars, ret >>

\* Faulty variant of RecordsResult: the session is updated whatever the outcome.
RecordsResultAlways(analysis, err) == TRUE

\* main.go:490: the session takes the result of a successful analysis only.
RecordsResult(analysis, err) == err = Nil /\ analysis # NilAnalysis

\* main.go:471-490: the frontend is told how the task ended, unless the log
\* line panics first, and the outcome decides whether the session is updated.
Finish(r) ==
    /\ pc[r] = "finish"
    /\ events' = IF LogPanics(reqAnalysis[r], reqErr[r])
                 THEN events
                 ELSE Append(events, TaskUpdate(reqTask[r], TaskStatus(reqErr[r])))
    /\ pc' = [pc EXCEPT ![r] =
                IF ~LogPanics(reqAnalysis[r], reqErr[r])
                   /\ RecordsResult(reqAnalysis[r], reqErr[r])
                THEN "store" ELSE "return"]
    /\ UNCHANGED << stageVars, handlerVars, configVars, cache, cancelled, sessionVars, calls,
                    ingestCalls, reqPath, reqOpts, cacheFile, cacheRead, cacheWrite,
                    engineVars, reqAnalysis, reqErr, ret, reqTask >>

\* main.go:491: a.excelAnalysis = analysis, stored without a lock.
StoreAnalysis(r) ==
    /\ pc[r] = "store"
    /\ excelAnalysis' = reqAnalysis[r]
    /\ pc' = [pc EXCEPT ![r] = "path"]
    /\ UNCHANGED << stageVars, handlerVars, taskVars, configVars, cache, cancelled, filePath,
                    calls, ingestCalls, localVars, engineVars >>

\* main.go:492: a.filePath = filePath, stored without a lock.
StorePath(r) ==
    /\ pc[r] = "path"
    /\ filePath' = reqPath[r]
    /\ pc' = [pc EXCEPT ![r] = "return"]
    /\ UNCHANGED << stageVars, handlerVars, taskVars, configVars, cache, cancelled,
                    excelAnalysis, calls, ingestCalls, localVars, engineVars >>

\* main.go:506-510: the call returns.
Return(r) ==
    /\ pc[r] = "return"
    /\ ret' = [ret EXCEPT ![r] = ReturnValue(reqAnalysis[r], reqErr[r])]
    /\ pc' = [pc EXCEPT ![r] = "done"]
    /\ UNCHANGED << stageVars, handlerVars, taskVars, configVars, cache, cancelled, sessionVars,
                    calls, ingestCalls, reqPath, reqOpts, cacheFile, cacheRead, cacheWrite,
                    engineVars, reqAnalysis, reqErr >>

\* The frontend has received the result; the goroutine and its locals are gone.
Returned(r) ==
    /\ pc[r] = "done"
    /\ pc' = [pc EXCEPT ![r] = "idle"]
    /\ reqPath' = [reqPath EXCEPT ![r] = ""]
    /\ reqOpts' = [reqOpts EXCEPT ![r] = NoOptions]
    /\ cacheFile' = [cacheFile EXCEPT ![r] = NoFile]
    /\ cacheRead' = [cacheRead EXCEPT ![r] = "none"]
    /\ cacheWrite' = [cacheWrite EXCEPT ![r] = "none"]
    /\ sheetSt' = [sheetSt EXCEPT ![r] = << >>]
    /\ completed' = [completed EXCEPT ![r] = << >>]
    /\ poolSize' = [poolSize EXCEPT ![r] = 0]
    /\ lateStarts' = [lateStarts EXCEPT ![r] = {}]
    /\ reqAnalysis' = [reqAnalysis EXCEPT ![r] = NilAnalysis]
    /\ reqErr' = [reqErr EXCEPT ![r] = Nil]
    /\ ret' = [ret EXCEPT ![r] = NotReturned]
    /\ reqTask' = [reqTask EXCEPT ![r] = NoTask]
    /\ UNCHANGED << stageVars, handlerVars, events, configVars, cache, cancelled, sessionVars, calls, ingestCalls >>

\* ------------------------------------------------------- other handlers
\* UpdateAppConfig runs on a goroutine of its own and takes no lock; one call
\* is followed at a time, overlapping with the other handlers.  Its steps are
\* set apart by the file accesses it waits for.
\*
\* main.go:834-859: the JSON text is parsed and every section.key of the
\* update is put into viper's settings.
UpdateAppConfig(u, jsonOK) ==
    /\ updPc = "idle"
    /\ updCalls < MaxUpdates
    /\ updCalls' = updCalls + 1
    /\ IF ~jsonOK
       THEN /\ updateErr' = "INVALID_CONFIG"
            /\ UNCHANGED << viperSettings, updPc >>
       ELSE /\ viperSettings' = Set(viperSettings, u)
            /\ updPc' = "write"
            /\ updateErr' = "not returned"
    /\ UNCHANGED << stageVars, handlerVars, taskVars, config, decoded, cache, cancelled, sessionVars,
                    calls, ingestCalls, pc, localVars, engineVars >>

\* main.go:862-865: viper.WriteConfig; a failure ends the call.
WriteConfig(writeOK) ==
    /\ updPc = "write"
    /\ IF writeOK
       THEN /\ updPc' = "load"
            /\ UNCHANGED updateErr
       ELSE /\ updPc' = "idle"
            /\ updateErr' = "CONFIG_SAVE_FAILED"
    /\ UNCHANGED << stageVars, handlerVars, taskVars, config, viperSettings, updCalls, decoded, cache,
                    cancelled, sessionVars, calls, ingestCalls, pc, localVars, engineVars >>

\* main.go:868, 145-195: loadConfig reads the config file back and replaces
\* a.config by an empty Config.
loadConfig ==
    /\ updPc = "load"
    /\ config' = EmptyConfig
    /\ configLLM' = EmptyLLM
    /\ updPc' = "unmarshal"
    /\ decoded' = 0
    /\ UNCHANGED << stageVars, taskVars, viperSettings, updateErr, updCalls, cache, cancelled,
                    sessionVars, calls, ingestCalls, pc, localVars, engineVars, preview,
                    appConfig, selectVars, picked, genVars, execVars, procVars >>

\* main.go:196-198: viper.Unmarshal decodes the next field into a.config,
\* which the handlers read meanwhile; an error is printed and dropped.
UnmarshalField ==
    /\ updPc = "unmarshal"
    /\ decoded' = decoded + 1
    /\ config' = Unmarshal(Decoded(viperSettings, decoded + 1))
    /\ configLLM' = UnmarshalLLM(Decoded(viperSettings, decoded + 1))
    /\ updPc' = IF decoded + 1 = Len(KeyOrder) THEN "return" ELSE "unmarshal"
    /\ UNCHANGED << stageVars, taskVars, viperSettings, updateErr, updCalls, cache, cancelled,
                    sessionVars, calls, ingestCalls, pc, localVars, engineVars, preview,
                    appConfig, selectVars, picked, genVars, execVars, procVars >>

\* main.go:200-213, 870-871: the directories are made and UpdateAppConfig
\* returns nil.
UpdateReturns ==
    /\ updPc = "return"
    /\ updPc' = "idle"
    /\ decoded' = 0
    /\ updateErr' = Nil
    /\ UNCHANGED << stageVars, handlerVars, taskVars, config, viperSettings, updCalls, cache, cancelled,
                    sessionVars, calls, ingestCalls, pc, localVars, engineVars >>

\* The steps of an UpdateAppConfig call after its first.
Reload ==
    \/ \E writeOK \in BOOLEAN : WriteConfig(writeOK)
    \/ loadConfig
    \/ UnmarshalField
    \/ UpdateReturns

\* OnShutdown: a.cancel() raises the application's cancellation signal.
OnShutdown ==
    /\ ~cancelled
    /\ cancelled' = TRUE
    /\ UNCHANGED << stageVars, handlerVars, taskVars, configVars, cache, sessionVars, calls, ingestCalls, pc, reqPath,
                    reqOpts, cacheFile, cacheRead, cacheWrite, engineVars, reqAnalysis,
                    reqErr, ret >>

\* ------------------------------------------------------- RegionSegmenter
\* A sheet is given by its occupancy mask: the set of its non-empty cells
\* <<row, column>>, already truncated to the row cap.
Cells == (1..GridRows) \X (1..GridCols)
Grids == SUBSET Cells

RowsOf(S) == { c[1] : c \in S }
ColsOf(S) == { c[2] : c \in S }
SetMin(S) == CHOOSE x \in S : \A y \in S : x <= y
SetMax(S) == CHOOSE x \in S : \A y \in S : x >= y

\* The fully blank rows and columns of the used range.
BlankRows(g) ==
    IF g = {} THEN {}
    ELSE { r \in SetMin(RowsOf(g))..SetMax(RowsOf(g)) : r \notin RowsOf(g) }
BlankCols(g) ==
    IF g = {} THEN {}
    ELSE { c \in SetMin(ColsOf(g))..SetMax(ColsOf(g)) : c \notin ColsOf(g) }

\* Faulty variant of RowBreaks: any blank row breaks connectivity.
RowBreaksAnyBlank(g) == BlankRows(g)

\* Two or more consecutive fully blank rows break connectivity.
RowBreaks(g) ==
    { r \in BlankRows(g) : (r - 1) \in BlankRows(g) \/ (r + 1) \in BlankRows(g) }
ColBreaks(g) ==
    { c \in BlankCols(g) : (c - 1) \in BlankCols(g) \/ (c + 1) \in BlankCols(g) }

\* The tolerance: the cells of a single fully blank row or column do not break
\* connectivity, so a cluster extends across them.
Bridges(g) ==
    { c \in Cells \ g :
        /\ c[1] \in BlankRows(g) \/ c[2] \in BlankCols(g)
        /\ c[1] \notin RowBreaks(g)
        /\ c[2] \notin ColBreaks(g)
        /\ c[1] \in SetMin(RowsOf(g))..SetMax(RowsOf(g))
        /\ c[2] \in SetMin(ColsOf(g))..SetMax(ColsOf(g)) }

\* 4-directional adjacency.
Adjacent(a, b) ==
    \/ a[1] = b[1] /\ (a[2] = b[2] + 1 \/ b[2] = a[2] + 1)
    \/ a[2] = b[2] /\ (a[1] = b[1] + 1 \/ b[1] = a[1] + 1)

RECURSIVE Flood(_, _)
\* The cells of `passable` connected to the cells of `reached`.
Flood(reached, passable) ==
    LET more == reached \cup { c \in passable : \E d \in reached : Adjacent(c, d) }
    IN  IF more = reached THEN reached ELSE Flood(more, passable)

\* The connected clusters of occupied cells.
Clusters(g) ==
    LET passable == g \cup Bridges(g)
    IN  { Flood({c}, passable) \cap g : c \in g }

\* The minimal bounding rectangle of a cluster's occupied cells.
BoundingRect(S) ==
    [ top    |-> SetMin(RowsOf(S)), left  |-> SetMin(ColsOf(S)),
      bottom |-> SetMax(RowsOf(S)), right |-> SetMax(ColsOf(S)) ]

RectsOverlap(a, b) ==
    /\ a.top <= b.bottom /\ b.top <= a.bottom
    /\ a.left <= b.right /\ b.left <= a.right

\* Faulty variant of MergeOverlapping: every cluster is emitted as it is.
MergeNothing(cs) == cs

RECURSIVE MergeOverlapping(_)
\* The tie-break: clusters whose bounding rectangles overlap become one.
MergeOverlapping(cs) ==
    IF \E a, b \in cs : a # b /\ RectsOverlap(BoundingRect(a), BoundingRect(b))
    THEN LET pair == CHOOSE q \in cs \X cs :
                        /\ q[1] # q[2]
                        /\ RectsOverlap(BoundingRect(q[1]), BoundingRect(q[2]))
         IN  MergeOverlapping((cs \ {pair[1], pair[2]}) \cup {pair[1] \cup pair[2]})
    ELSE cs

\* Row-major order of top-left cells.
TopLeftBefore(a, b) == a.top < b.top \/ (a.top = b.top /\ a.left < b.left)

RECURSIVE SortByTopLeft(_)
SortByTopLeft(rects) ==
    IF rects = {} THEN << >>
    ELSE LET first == CHOOSE a \in rects : \A b \in rects \ {a} : TopLeftBefore(a, b)
         IN  << first >> \o SortByTopLeft(rects \ {first})

\* The regions of a sheet, ordered by top-left cell.
RegionSegmenter(g) ==
    SortByTopLeft({ BoundingRect(c) : c \in MergeOverlapping(Clusters(g)) })

\* The segmentation pass over the sheet at hand.
SegmentSheet ==
    /\ ~segmented
    /\ segRegions' = RegionSegmenter(grid)
    /\ segmented' = TRUE
    /\ UNCHANGED << appVars, handlerVars, regionVars, letterVars, relVars, grid >>

\* ------------------------------------------------- the stages of a region
\* Raw cell values as GridSource hands them over.
CellValues == { "", "42", "abc", "$5.00" }

\* A data row of a two-column region.
RowValues == CellValues \X CellValues

RECURSIVE SeqsUpTo(_, _)
\* The sequences over S of length at most n.
SeqsUpTo(S, n) ==
    IF n = 0 THEN { << >> }
    ELSE LET shorter == SeqsUpTo(S, n - 1)
         IN  shorter \cup { Append(q, x) : q \in { s \in shorter : Len(s) = n - 1 }, x \in S }

\* The header rows HeaderClassifier hands on: labels read from the sheet, which
\* may repeat, or synthesized ones.
HeaderRows == { << "Name", "Age" >>, << "Name", "Name" >> }

\* The most specific parse a value passes (spec.md 4.3); "" passes none.
ValueKind(v) ==
    IF v = "" THEN "None"
    ELSE IF v = "$5.00" THEN "Currency"
    ELSE IF v = "42" THEN "Number"
    ELSE "Text"

\* Precedence of the semantic types: a lower rank wins a tie.
TypeRank(ty) ==
    CASE ty = "Formula" -> 1 [] ty = "Currency" -> 2 [] ty = "Date" -> 3
      [] ty = "Number" -> 4 [] ty = "Boolean" -> 5 [] ty = "Text" -> 6
      [] OTHER -> 7

SemanticTypes == { "Formula", "Currency", "Date", "Number", "Boolean", "Text" }

\* The leading min(cap, Len(rows)) rows.
FirstRows(rows, cap) == SubSeq(rows, 1, Min(cap, Len(rows)))

\* The kinds of the sampled values of column c.
ColumnKinds(sample, c) == [ i \in 1..Len(sample) |-> ValueKind(sample[i][c]) ]

Votes(kinds, ty) == Cardinality({ i \in 1..Len(kinds) : kinds[i] = ty })

\* Faulty variant of InferType: the plain majority vote, no fallback to Text.
InferTypeMajorityOnly(kinds) ==
    LET parsed == { kinds[i] : i \in 1..Len(kinds) } \ { "None" }
    IN  IF parsed = {} THEN "Unknown"
        ELSE CHOOSE ty \in parsed :
                \A other \in parsed \ {ty} :
                    \/ Votes(kinds, ty) > Votes(kinds, other)
                    \/ /\ Votes(kinds, ty) = Votes(kinds, other)
                       /\ TypeRank(ty) < TypeRank(other)

\* TypeInferencer for one column: Unknown when nothing parses, Text when text
\* and numeric values mix, otherwise the majority vote with ties going to the
\* more specific type.
InferType(kinds) ==
    LET parsed == { kinds[i] : i \in 1..Len(kinds) } \ { "None" }
    IN  IF parsed = {} THEN "Unknown"
        ELSE IF "Text" \in parsed /\ parsed \cap { "Number", "Currency" } # {}
        THEN "Text"
        ELSE InferTypeMajorityOnly(kinds)

\* The columns that carry header name h.
ColumnsNamed(hdrs, h) == { c \in 1..Len(hdrs) : hdrs[c] = h }

\* Faulty variant of TypeMap: columns without a parsed value get no entry.
TypeMapSkippingUnknown(hdrs, sample) ==
    [ h \in { hdrs[c] : c \in { d \in 1..Len(hdrs) :
                                  InferType(ColumnKinds(sample, d)) # "Unknown" } } |->
        InferType(ColumnKinds(sample, SetMax(ColumnsNamed(hdrs, h)))) ]

\* The DataTypes map: header name -> type, filled column by column, so a
\* repeated name keeps the type of its last column.
TypeMap(hdrs, sample) ==
    [ h \in { hdrs[c] : c \in 1..Len(hdrs) } |->
        InferType(ColumnKinds(sample, SetMax(ColumnsNamed(hdrs, h)))) ]

EmptyMap == [ h \in {} |-> "" ]
NoDataRange ==
    [ Headers |-> << >>, HasHeaders |-> FALSE, DataRows |-> 0,
      DataTypes |-> EmptyMap, SampleData |-> << >> ]
NoPrompt ==
    [ Panicked |-> FALSE, MaxSampleRows |-> 0, HeadersFormatted |-> << >>,
      SampleDataLimited |-> << >> ]

\* TypeInferencer: one type per header from the sampled values.
InferTypes ==
    /\ regionPc = "headed"
    /\ dataRange' = [dataRange EXCEPT
                        !.DataTypes = TypeMap(dataRange.Headers,
                                              FirstRows(regionRows, maxSamples))]
    /\ regionPc' = "typed"
    /\ UNCHANGED << appVars, handlerVars, segVars, letterVars, relVars, regionRows, maxSamples, promptData >>

\* SampleExtractor: the first data rows, up to the cap.
SampleExtractor(rows, cap) == FirstRows(rows, cap)

ExtractSamples ==
    /\ regionPc = "typed"
    /\ dataRange' = [dataRange EXCEPT !.SampleData = SampleExtractor(regionRows, maxSamples)]
    /\ regionPc' = "sampled"
    /\ UNCHANGED << appVars, handlerVars, segVars, letterVars, relVars, regionRows, maxSamples, promptData >>

\* RelationshipInferrer: one run over the regions at hand.
InferRelationships ==
    /\ ~related
    /\ relOut' = RelationshipInferrer(relIn)
    /\ related' = TRUE
    /\ UNCHANGED << appVars, handlerVars, segVars, regionVars, letterVars, relIn >>

\* ------------------------------------------------ mcp prompt generator
Alphabet == << "A", "B", "C", "D", "E", "F", "G", "H", "I", "J", "K", "L", "M",
               "N", "O", "P", "Q", "R", "S", "T", "U", "V", "W", "X", "Y", "Z" >>

\* string(rune('A' + remainder))
Letter(remainder) == Alphabet[remainder + 1]

\* prompt_generator.go:271: index = index/26 - 1
NextIndex(index) == index \div 26 - 1

\* Faulty variant of LoopContinues: the loop stops at index 0.
LoopContinuesAboveZero(index) == index > 0

\* prompt_generator.go:268: for index >= 0
LoopContinues(index) == index >= 0

RECURSIVE ColumnLetterLoop(_, _)
\* prompt_generator.go:268-272: the loop body, run until the guard fails.
ColumnLetterLoop(index, result) ==
    IF LoopContinues(index)
    THEN LET remainder == index % 26
         IN  ColumnLetterLoop(NextIndex(index), << Letter(remainder) >> \o result)
    ELSE result

\* columnLetterFromIndex: the letters of the column with 0-based index `index`.
columnLetterFromIndex(index) == ColumnLetterLoop(index, << >>)

\* dataTypes[header]: the zero value "" for a missing key.
LookupType(dataTypes, header) ==
    IF header \in DOMAIN dataTypes THEN dataTypes[header] ELSE ""

\* formatHeaders: one line "[header:%s] (Column %s, Type: %s)" per header.
formatHeaders(hdrs, dataTypes) ==
    [ i \in 1..Len(hdrs) |->
        [ header |-> hdrs[i],
          column |-> columnLetterFromIndex(i - 1),
          type   |-> IF LookupType(dataTypes, hdrs[i]) = ""
                     THEN "Unknown" ELSE LookupType(dataTypes, hdrs[i]) ] ]

\* Faulty variant of limitSampleData: the slice keeps one row too many.
limitSampleDataOffByOne(sampleData, maxRows) ==
    IF Len(sampleData) <= maxRows + 1
    THEN [ panic |-> FALSE, rows |-> sampleData ]
    ELSE IF maxRows + 1 < 0 THEN [ panic |-> TRUE, rows |-> << >> ]
    ELSE [ panic |-> FALSE, rows |-> SubSeq(sampleData, 1, maxRows + 1) ]

\* limitSampleData: sampleData itself when it has at most maxRows rows, else
\* sampleData[:maxRows], which panics for a negative maxRows.
limitSampleData(sampleData, maxRows) ==
    IF Len(sampleData) <= maxRows
    THEN [ panic |-> FALSE, rows |-> sampleData ]
    ELSE IF maxRows < 0 THEN [ panic |-> TRUE, rows |-> << >> ]
    ELSE [ panic |-> FALSE, rows |-> SubSeq(sampleData, 1, maxRows) ]

\* The values PromptConfig.MaxSampleRows is given.
MaxSampleRowsValues == { -1, 0, 1, DefaultMaxSampleRows }

\* GenerateExaMCPPromptWithConfig, prompt_generator.go:98-109: the template
\* data is built from the DataRange.
BuildPromptData(maxRows) ==
    /\ regionPc = "sampled"
    /\ LET limited == limitSampleData(dataRange.SampleData, maxRows)
       IN  promptData' =
              [ Panicked          |-> limited.panic,
                MaxSampleRows     |-> maxRows,
                HeadersFormatted  |-> IF limited.panic THEN << >>
                                      ELSE formatHeaders(dataRange.Headers, dataRange.DataTypes),
                SampleDataLimited |-> limited.rows ]
    /\ regionPc' = "prompted"
    /\ UNCHANGED << appVars, handlerVars, segVars, letterVars, relVars, regionRows, maxSamples, dataRange >>

\* One call of columnLetterFromIndex.
ColumnLetter ==
    /\ ~lettered
    /\ colLetter' = columnLetterFromIndex(colIndex)
    /\ lettered' = TRUE
    /\ UNCHANGED << appVars, handlerVars, segVars, regionVars, relVars, colIndex >>

\* ------------------------------------------------------- PreviewRegion
\* excel.GetRegionPreviewData: the rows read from the file for the region.
PreviewData(path, region) == region.SampleData

\* The local variable region before main.go:562 has set it.
NoRegionLoaded == [ isNone |-> TRUE ]

\* No PreviewRegion call has been made.
NotPreviewed ==
    [ pc |-> "idle", called |-> FALSE, index |-> 0, region |-> NoRegionLoaded,
      data |-> << >>, err |-> Nil, read |-> FALSE, file |-> "", panicked |-> FALSE ]

\* len(a.excelAnalysis.AllRanges): dereferences a.excelAnalysis, which panics
\* when no analysis is loaded.
RegionCount(analysis) ==
    IF analysis = NilAnalysis
    THEN [ panic |-> TRUE, n |-> 0 ]
    ELSE [ panic |-> FALSE, n |-> Len(analysis.AllRanges) ]

\* main.go:553: a.excelAnalysis == nil || index < 0 || index >= len(AllRanges),
\* evaluated left to right.  The condition loads a.excelAnalysis twice; the
\* only store to it (main.go:491) never stores nil, so the second load cannot
\* find nil and decides alone: the two loads act as one.
InvalidRegion(analysis, index) ==
    \/ analysis = NilAnalysis
    \/ index < 0
    \/ index >= RegionCount(analysis).n

\* The indexes the frontend passes.
PreviewIndexes == -1..(NumSheets + 1)

\* A call that a panic ended: the deferred recoverPanic (main.go:912-928) logs
\* it, and the call returns the zero values of its results.
PreviewPanicked(pv) ==
    [ pv EXCEPT !.pc = "done", !.called = TRUE, !.panicked = TRUE ]

\* PreviewRegion(index) arrives and tests the index: main.go:548-553.  The
\* handler takes no lock; one preview is followed at a time, every step of it
\* overlapping with the other handlers.
PreviewRegion(index) ==
    /\ preview.pc \in { "idle", "done" }
    /\ preview' = [ NotPreviewed EXCEPT
                      !.index = index,
                      !.pc = IF InvalidRegion(excelAnalysis, index)
                             THEN "details" ELSE "region" ]
    /\ UNCHANGED << appVars, stageVars, genVars, execVars, procVars, configLLM, appConfig,
                    selectVars, picked >>

\* main.go:554-558: the INVALID_REGION error is built with the details index,
\* regionCount and hasAnalysis; regionCount loads a.excelAnalysis again and
\* panics when it is nil.
PreviewDetails ==
    /\ preview.pc = "details"
    /\ preview' = IF RegionCount(excelAnalysis).panic
                  THEN PreviewPanicked(preview)
                  ELSE [ preview EXCEPT !.pc = "done", !.called = TRUE,
                                        !.err = "INVALID_REGION" ]
    /\ UNCHANGED << appVars, stageVars, genVars, execVars, procVars, configLLM, appConfig,
                    selectVars, picked >>

\* main.go:562: region := a.excelAnalysis.AllRanges[index], a further load of
\* a.excelAnalysis; an index outside the ranges found now panics.
PreviewLoadRegion ==
    /\ preview.pc = "region"
    /\ preview' = IF /\ excelAnalysis # NilAnalysis
                     /\ preview.index + 1 \in DOMAIN excelAnalysis.AllRanges
                  THEN [ preview EXCEPT
                           !.pc = "read",
                           !.region = excelAnalysis.AllRanges[preview.index + 1] ]
                  ELSE PreviewPanicked(preview)
    /\ UNCHANGED << appVars, stageVars, genVars, execVars, procVars, configLLM, appConfig,
                    selectVars, picked >>

\* main.go:565-576: a.filePath is loaded and the preview rows are read from
\* that file.
PreviewRead(readOK) ==
    /\ preview.pc = "read"
    /\ preview' = [ preview EXCEPT
                      !.pc = "done", !.called = TRUE, !.read = TRUE, !.file = filePath,
                      !.data = IF readOK THEN PreviewData(filePath, preview.region) ELSE << >>,
                      !.err = IF readOK THEN Nil ELSE "PREVIEW_FAILED" ]
    /\ UNCHANGED << appVars, stageVars, genVars, execVars, procVars, configLLM, appConfig,
                    selectVars, picked >>

\* The steps of a PreviewRegion call.
Preview ==
    \/ \E index \in PreviewIndexes : PreviewRegion(index)
    \/ PreviewDetails
    \/ PreviewLoadRegion
    \/ \E readOK \in BOOLEAN : PreviewRead(readOK)

\* ----------------------------------------------------- SelectExcelFile
NotPicked == [ path |-> "", err |-> Nil ]

\* What runtime.OpenFileDialog hands back: a path, or "" when the user cancels.
DialogChoices == Paths \cup { "" }

\* SelectExcelFile: main.go:381-420.  The dialog fails, is cancelled, or gives a
\* path, which becomes a.filePath.
SelectExcelFile(chosen, dialogOK) ==
    /\ IF ~dialogOK
       THEN /\ picked' = [ path |-> "", err |-> "ErrDialog" ]
            /\ UNCHANGED filePath
       ELSE /\ picked' = [ path |-> chosen, err |-> Nil ]
            /\ filePath' = IF chosen = "" THEN filePath ELSE chosen
    /\ UNCHANGED << stageVars, genVars, execVars, procVars, configLLM, preview, appConfig, selectVars,
                    configVars, cache, cancelled, excelAnalysis, calls, ingestCalls,
                    pc, localVars, engineVars, taskVars >>

\* ---------------------------------------------------- SetCurrentRegion
NotSelected == [ pc |-> "idle", called |-> FALSE, index |-> 0, ok |-> FALSE ]

\* main.go:528: the index is taken when the test for an invalid index fails.
Selects(analysis, index) == ~InvalidRegion(analysis, index)

\* SetCurrentRegion(index) arrives and tests the index: main.go:523-531.  The
\* handler takes no lock; one selection is followed at a time, every step of
\* it overlapping with the other handlers.
SetCurrentRegion(index) ==
    /\ setRet.pc \in { "idle", "done" }
    /\ setRet' = IF Selects(excelAnalysis, index)
                 THEN [ pc |-> "store", called |-> FALSE, index |-> index, ok |-> FALSE ]
                 ELSE [ pc |-> "done", called |-> TRUE, index |-> index, ok |-> FALSE ]
    /\ UNCHANGED << appVars, stageVars, genVars, execVars, procVars, configLLM, preview,
                    appConfig, picked, currentRegion >>

\* main.go:533: a.currentRegion = index.
StoreCurrentRegion ==
    /\ setRet.pc = "store"
    /\ currentRegion' = setRet.index
    /\ setRet' = [ setRet EXCEPT !.pc = "log" ]
    /\ UNCHANGED << appVars, stageVars, genVars, execVars, procVars, configLLM, preview,
                    appConfig, picked >>

\* main.go:536-544: the region is loaded again for the log line; an index
\* outside the ranges found now panics, and the call returns false with the
\* index already stored.
LogCurrentRegion ==
    /\ setRet.pc = "log"
    /\ setRet' = [ setRet EXCEPT
                     !.pc = "done", !.called = TRUE,
                     !.ok = /\ excelAnalysis # NilAnalysis
                            /\ setRet.index + 1 \in DOMAIN excelAnalysis.AllRanges ]
    /\ UNCHANGED << appVars, stageVars, genVars, execVars, procVars, configLLM, preview,
                    appConfig, picked, currentRegion >>

\* The steps of a SetCurrentRegion call with one of the given indexes.
Select(indexes) ==
    \/ \E index \in indexes : SetCurrentRegion(index)
    \/ StoreCurrentRegion
    \/ LogCurrentRegion

\* --------------------------------------------------- GenerateVBAScript
\* The ranges a call holds before it loads them.
NoRanges == << >>

\* main.go:121: currentRegion as NewApp sets it, no region selected; a call's
\* copy of the field holds it until the load at main.go:592.
NoCurrent == -1

GenIdle == [ pc |-> "idle", task |-> NoTask, cur |-> NoCurrent, ranges |-> NoRanges,
             region |-> NoRegionLoaded, prompt |-> Nil, code |-> "", err |-> Nil,
             panicked |-> FALSE ]

\* What a GenerateVBAScript call returns with, its task ID kept for reference.
GenReturn(task, code, err, panicked) ==
    [ GenIdle EXCEPT !.pc = "done", !.task = task, !.code = code, !.err = err,
                     !.panicked = panicked ]

\* main.go:592: the negation of
\* a.currentRegion < 0 || a.currentRegion >= len(a.excelAnalysis.AllRanges),
\* on the index and the ranges the call has loaded.
RegionSelected(ranges, cur) == ~(cur < 0 \/ cur >= Len(ranges))

\* main.go:613-617: the prompt is built for the region by AdvancedMCPPrompt or
\* by GenerateMCPPrompt, as excel.use_advanced_detection says.
BuildPrompt(cfg, region) ==
    [ advanced |-> cfg.Excel.UseAdvanced, region |-> RangeRef(region) ]

\* GenerateVBAScript arrives and tests for an analysis: main.go:580-590.  The
\* handler takes no lock; one generation is followed at a time, every step of
\* it overlapping with the other handlers.  The analysis loaded here stays with
\* the call: the loads that follow are not synchronised, so the build may use
\* it again in place of loading a.excelAnalysis anew.
GenerateCall ==
    /\ gen.pc = "idle"
    /\ genCalls < MaxTasks
    /\ genCalls' = genCalls + 1
    /\ gen' = IF excelAnalysis = NilAnalysis
              THEN GenReturn(NoTask, "", "NO_EXCEL_DATA", FALSE)
              ELSE [ GenIdle EXCEPT !.pc = "test", !.ranges = excelAnalysis.AllRanges ]
    /\ UNCHANGED << procVars, stageVars, appVars, configLLM, preview, appConfig, selectVars,
                    picked, execVars, llmCalls >>

\* main.go:592: a.currentRegion is loaded for the test; a negative index ends
\* the call.  The condition loads it twice; it is -1 until the first selection
\* and never negative again (main.go:528, 533), so the second load decides
\* alone once the first has passed: the two loads act as one.  Go fixes no
\* order between this load and that of the ranges.
GenLoadCurrent ==
    /\ gen.pc \in { "test", "testIndex" }
    /\ gen' = IF currentRegion < 0
              THEN GenReturn(NoTask, "", "NO_REGION_SELECTED", FALSE)
              ELSE [ gen EXCEPT !.cur = currentRegion,
                                !.pc = IF gen.pc = "test" THEN "testRanges" ELSE "bound" ]
    /\ UNCHANGED << procVars, stageVars, appVars, configLLM, preview, appConfig, selectVars,
                    picked, execVars, genCalls, llmCalls >>

\* main.go:592: the ranges whose number bounds the index are those of
\* a.excelAnalysis loaded anew (fresh), or those of the analysis the call
\* holds since main.go:588.
GenLoadBound(fresh) ==
    /\ gen.pc \in { "test", "testRanges" }
    /\ gen' = [ gen EXCEPT !.ranges = IF fresh THEN excelAnalysis.AllRanges ELSE @,
                           !.pc = IF gen.pc = "test" THEN "testIndex" ELSE "bound" ]
    /\ UNCHANGED << procVars, stageVars, appVars, configLLM, preview, appConfig, selectVars,
                    picked, execVars, genCalls, llmCalls >>

\* main.go:592-594: the index is tested against the number of the ranges.
GenCheckBound ==
    /\ gen.pc = "bound"
    /\ gen' = IF RegionSelected(gen.ranges, gen.cur)
              THEN [ gen EXCEPT !.pc = "region" ]
              ELSE GenReturn(NoTask, "", "NO_REGION_SELECTED", FALSE)
    /\ UNCHANGED << procVars, stageVars, appVars, configLLM, preview, appConfig, selectVars,
                    picked, execVars, genCalls, llmCalls >>

\* main.go:597: region := a.excelAnalysis.AllRanges[a.currentRegion] takes the
\* ranges and the index, each loaded anew (fresh) or as the call holds it from
\* the test; Go fixes no order for the two loads.
GenLoadRanges(fresh) ==
    /\ gen.pc \in { "region", "ranges" }
    /\ gen' = [ gen EXCEPT !.ranges = IF fresh THEN excelAnalysis.AllRanges ELSE @,
                           !.pc = IF gen.pc = "region" THEN "index" ELSE "indexing" ]
    /\ UNCHANGED << procVars, stageVars, appVars, configLLM, preview, appConfig, selectVars,
                    picked, execVars, genCalls, llmCalls >>

GenLoadIndex(fresh) ==
    /\ gen.pc \in { "region", "index" }
    /\ gen' = [ gen EXCEPT !.cur = IF fresh THEN currentRegion ELSE @,
                           !.pc = IF gen.pc = "region" THEN "ranges" ELSE "indexing" ]
    /\ UNCHANGED << procVars, stageVars, appVars, configLLM, preview, appConfig, selectVars,
                    picked, execVars, genCalls, llmCalls >>

\* main.go:597-609: the ranges are indexed, which panics for an index outside
\* them: recoverPanic ends the call, which returns the zero values.  Otherwise
\* the frontend is told that the task has started.
GenStart ==
    /\ gen.pc = "indexing"
    /\ IF gen.cur + 1 \in DOMAIN gen.ranges
       THEN /\ events' = Append(events, TaskStart(<< "generate", genCalls >>))
            /\ gen' = [ gen EXCEPT !.pc = "prompt", !.task = << "generate", genCalls >>,
                                   !.region = gen.ranges[gen.cur + 1],
                                   !.ranges = NoRanges, !.cur = NoCurrent ]
       ELSE /\ gen' = GenReturn(NoTask, "", Nil, TRUE)
            /\ UNCHANGED events
    /\ UNCHANGED << procVars, stageVars, configVars, cache, cancelled, sessionVars, calls,
                    ingestCalls, pc, localVars, engineVars, reqTask, configLLM,
                    preview, appConfig, selectVars, picked, execVars, genCalls, llmCalls >>

\* main.go:613-626: a.config.Excel.UseAdvanced is read, the prompt is built
\* and a.llmClient.Generate is called.
GenCallLLM ==
    /\ gen.pc = "prompt"
    /\ llmCalls' = llmCalls + 1
    /\ gen' = [ gen EXCEPT !.pc = "llm", !.prompt = BuildPrompt(config, gen.region),
                           !.region = NoRegionLoaded ]
    /\ UNCHANGED << procVars, stageVars, appVars, configLLM, preview, appConfig, selectVars,
                    picked, execVars, genCalls >>

\* a.llmClient.Generate returns: main.go:626-692.  On an error the task fails
\* with LLM_API_ERROR; otherwise the code is validated and the task completes.
GenerateReturns(llmOK) ==
    /\ gen.pc = "llm"
    /\ events' = Append(events,
                    TaskUpdate(gen.task, IF llmOK THEN "completed" ELSE "failed"))
    /\ gen' = IF llmOK
              THEN GenReturn(gen.task, "vba", Nil, FALSE)
              ELSE GenReturn(gen.task, "", "LLM_API_ERROR", FALSE)
    /\ UNCHANGED << procVars, stageVars, configVars, cache, cancelled, sessionVars, calls,
                    ingestCalls, pc, localVars, engineVars, reqTask, configLLM,
                    preview, appConfig, selectVars, picked, execVars, genCalls,
                    llmCalls >>

\* The frontend has received the result of GenerateVBAScript.
GenerateDone ==
    /\ gen.pc = "done"
    /\ gen' = GenIdle
    /\ UNCHANGED << procVars, appVars, stageVars, configLLM, preview, appConfig, selectVars,
                    picked, execVars, genCalls, llmCalls >>

\* The steps GenerateVBAScript takes on its own goroutine.
GenerateSteps ==
    \/ GenLoadCurrent
    \/ \E fresh \in BOOLEAN : GenLoadBound(fresh)
    \/ GenCheckBound
    \/ \E fresh \in BOOLEAN : GenLoadRanges(fresh)
    \/ \E fresh \in BOOLEAN : GenLoadIndex(fresh)
    \/ GenStart
    \/ GenCallLLM

\* ---------------------------------------------------------- ExecuteVBA
ExecIdle == [ pc |-> "idle", task |-> NoTask, file |-> "", err |-> Nil ]

\* ExecuteVBA arrives and tests for a file: main.go:695-700.  The handler
\* takes no lock; one execution is followed at a time, overlapping with the
\* other handlers.
ExecuteCall ==
    /\ exec.pc = "idle"
    /\ execCalls < MaxTasks
    /\ execCalls' = execCalls + 1
    /\ exec' = IF filePath = ""
               THEN [ pc |-> "done", task |-> NoTask, file |-> "", err |-> "NO_FILE" ]
               ELSE [ pc |-> "start", task |-> NoTask, file |-> "", err |-> Nil ]
    /\ UNCHANGED << procVars, stageVars, appVars, configLLM, preview, appConfig, selectVars,
                    picked, genVars >>

\* main.go:702-717: the frontend is told that the task has started.
ExecuteStart ==
    /\ exec.pc = "start"
    /\ events' = Append(events, TaskStart(<< "execute", execCalls >>))
    /\ exec' = [ exec EXCEPT !.pc = "file", !.task = << "execute", execCalls >> ]
    /\ UNCHANGED << procVars, stageVars, configVars, cache, cancelled, sessionVars, calls,
                    ingestCalls, pc, localVars, engineVars, reqTask, configLLM,
                    preview, appConfig, selectVars, picked, genVars, execCalls >>

\* main.go:720: a.filePath is loaded and the executor is called with it.
ExecuteRun ==
    /\ exec.pc = "file"
    /\ exec' = [ exec EXCEPT !.pc = "run", !.file = filePath ]
    /\ UNCHANGED << procVars, stageVars, appVars, configLLM, preview, appConfig, selectVars,
                    picked, genVars, execCalls >>

\* The steps ExecuteVBA takes on its own goroutine.
ExecuteSteps == ExecuteStart \/ ExecuteRun

\* excel.ExecuteVBAWithErrorAnalysis returns: main.go:720-764.
ExecuteReturns(ok) ==
    /\ exec.pc = "run"
    /\ events' = Append(events, TaskUpdate(exec.task, IF ok THEN "completed" ELSE "failed"))
    /\ exec' = [ exec EXCEPT !.pc = "done",
                             !.err = IF ok THEN Nil ELSE "VBA_EXECUTION_ERROR" ]
    /\ UNCHANGED << procVars, stageVars, configVars, cache, cancelled, sessionVars, calls,
                    ingestCalls, pc, localVars, engineVars, reqTask, configLLM,
                    preview, appConfig, selectVars, picked, genVars, execCalls >>

\* The frontend has received the result of ExecuteVBA.
ExecuteDone ==
    /\ exec.pc = "done"
    /\ exec' = ExecIdle
    /\ UNCHANGED << procVars, appVars, stageVars, configLLM, preview, appConfig, selectVars,
                    picked, genVars, execCalls >>

\* -------------------------------------------------------- taskProcessor
ProcIdle == [ pc |-> "receive", task |-> NoTask, err |-> Nil ]

\* The IDs of the tasks some caller places on the queue.
QueuedIDs == { "job" } \X (1..MaxQueued)

\* a.taskQueue <- task: a task joins the channel's buffer.  Task IDs carry the
\* nanosecond at which the task was made (main.go:430, 601, 709), so no ID is
\* placed twice.
Enqueue(id) ==
    /\ Len(enqueued) < MaxQueued
    /\ \A i \in 1..Len(enqueued) : enqueued[i] # id
    /\ taskQueue' = Append(taskQueue, id)
    /\ enqueued' = Append(enqueued, id)
    /\ UNCHANGED << appVars, stageVars, proc, configLLM, preview, appConfig,
                    selectVars, picked, genVars, execVars >>

\* for task := range a.taskQueue: the channel hands out its oldest element.
Receive(queue) == Head(queue)

\* What is left in the channel once its oldest element has been handed out.
Remaining(queue) == Tail(queue)

\* main.go:332-338: the loop receives a task, marks it processing and tells
\* the frontend.
Dequeue ==
    /\ proc.pc = "receive"
    /\ taskQueue # << >>
    /\ proc' = [ pc |-> "execute", task |-> Receive(taskQueue), err |-> Nil ]
    /\ taskQueue' = Remaining(taskQueue)
    /\ events' = Append(events, TaskUpdate(Receive(taskQueue), "processing"))
    /\ UNCHANGED << stageVars, configVars, cache, cancelled, sessionVars, calls,
                    ingestCalls, pc, localVars, engineVars, reqTask, enqueued,
                    configLLM, preview, appConfig, selectVars, picked, genVars,
                    execVars >>

\* Faulty variant of Recovered: the task's Error is left unset.
RecoveredWithoutError(id) ==
    [ err |-> Nil, emitted |-> << TaskUpdate(id, "failed") >> ]

\* main.go:343-354: the deferred function recovers the panic, marks the task
\* failed, sets its Error and tells the frontend.
Recovered(id) ==
    [ err |-> "internal error", emitted |-> << TaskUpdate(id, "failed") >> ]

\* main.go:341-359: the task is executed inside a function of its own, whose
\* deferred function contains a panic.
ExecuteTask(panics) ==
    /\ proc.pc = "execute"
    /\ IF panics
       THEN /\ proc' = [ proc EXCEPT !.pc = "complete", !.err = Recovered(proc.task).err ]
            /\ events' = events \o Recovered(proc.task).emitted
       ELSE /\ proc' = [ proc EXCEPT !.pc = "complete" ]
            /\ UNCHANGED events
    /\ UNCHANGED << stageVars, configVars, cache, cancelled, sessionVars, calls,
                    ingestCalls, pc, localVars, engineVars, reqTask, taskQueue,
                    enqueued, configLLM, preview, appConfig, selectVars, picked,
                    genVars, execVars >>

\* main.go:361-378: the task completes or fails as its Error says, the
\* frontend is told, and the loop turns to the next task.
CompleteTask ==
    /\ proc.pc = "complete"
    /\ events' = Append(events, TaskUpdate(proc.task, TaskStatus(proc.err)))
    /\ proc' = ProcIdle
    /\ UNCHANGED << stageVars, configVars, cache, cancelled, sessionVars, calls,
                    ingestCalls, pc, localVars, engineVars, reqTask, taskQueue,
                    enqueued, configLLM, preview, appConfig, selectVars, picked,
                    genVars, execVars >>

\* -------------------------------------------------------- GetAppConfig
Providers == { "openrouter", "openai" }
APIKeys == { "", "sk-A", "sk-B" }

\* a.config.LLM as loadConfig fills it from the defaults and the config file.
LLMConfigs == [ Provider : Providers, APIKey : APIKeys ]

\* Faulty variant of LLMSection: the whole LLM section is handed out.
LLMSectionWithKey(llm) == [ provider |-> llm.Provider, apiKey |-> llm.APIKey ]

\* main.go:827-829: the "llm" entry of the returned map.
LLMSection(llm) == [ provider |-> llm.Provider ]

\* main.go:818-830: the map GetAppConfig builds from one configuration.
AppConfigMap(cfg, llm) ==
    [ ui     |-> cfg.UI,
      system |-> [ devMode |-> cfg.System.DevMode,
                   cacheEnabled |-> cfg.System.CacheEnabled ],
      excel  |-> [ useAdvanced |-> cfg.Excel.UseAdvanced ],
      llm    |-> LLMSection(llm) ]

\* The entries of the map in the order main.go:819-828 reads them from
\* a.config.
AppConfigOrder == << "ui", "devMode", "cacheEnabled", "useAdvanced", "provider" >>

\* The map with its k-th entry read from the configuration as it stands.
ReadAppConfig(value, k, cfg, llm) ==
    LET now == AppConfigMap(cfg, llm)
    IN  CASE k = 1 -> [ value EXCEPT !.ui = now.ui ]
          [] k = 2 -> [ value EXCEPT !.system.devMode = now.system.devMode ]
          [] k = 3 -> [ value EXCEPT !.system.cacheEnabled = now.system.cacheEnabled ]
          [] k = 4 -> [ value EXCEPT !.excel = now.excel ]
          [] k = 5 -> [ value EXCEPT !.llm = now.llm ]

\* The map before any entry has been read.
BlankAppConfig == AppConfigMap(EmptyConfig, EmptyLLM)

NoAppConfig == [ called |-> FALSE, read |-> 0, value |-> BlankAppConfig ]

\* The entry a GetAppConfig step reads next; after the last entry of a call
\* the next call starts with the first.
NextEntry(ac) == (ac.read % Len(AppConfigOrder)) + 1

\* The map a GetAppConfig step builds on.
MapSoFar(ac) == IF NextEntry(ac) = 1 THEN BlankAppConfig ELSE ac.value

\* GetAppConfig, one entry at a time: main.go:814-831.  The reads take no
\* lock, so loadConfig may refill a.config between any two; the call returns
\* with the last entry.
GetAppConfig ==
    /\ appConfig' = [ called |-> NextEntry(appConfig) = Len(AppConfigOrder),
                      read   |-> NextEntry(appConfig),
                      value  |-> ReadAppConfig(MapSoFar(appConfig), NextEntry(appConfig),
                                               config, configLLM) ]
    /\ UNCHANGED << appVars, stageVars, genVars, execVars, procVars, configLLM, preview,
                    selectVars, picked >>

\* ------------------------------------------------------------------ spec
\* No sheet is at hand.
NoSheet ==
    /\ grid = {}
    /\ segRegions = << >>
    /\ segmented = FALSE

\* No region is at hand.
NoRegion ==
    /\ regionRows = << >>
    /\ maxSamples = DefaultMaxSamples
    /\ dataRange = NoDataRange
    /\ regionPc = "none"
    /\ promptData = NoPrompt

\* columnLetterFromIndex is not being called.
NoLetter ==
    /\ colIndex = 0
    /\ colLetter = << >>
    /\ lettered = FALSE

\* No workbook's regions are at hand.
NoRegionSet ==
    /\ relIn = << >>
    /\ relOut = << >>
    /\ related = FALSE

StagesAtRest == NoSheet /\ NoRegion /\ NoLetter /\ NoRegionSet

\* NewApp: nothing is cached, no analysis is loaded, no call is in progress.
AppInit ==
    /\ config = Unmarshal(viperSettings)
    /\ updateErr = Nil
    /\ updPc = "idle"
    /\ updCalls = 0
    /\ decoded = 0
    /\ cache = [ f \in CacheFiles |-> Absent ]
    /\ cancelled = FALSE
    /\ excelAnalysis = NilAnalysis
    /\ filePath = ""
    /\ calls = 0
    /\ ingestCalls = 0
    /\ pc = [ r \in Requests |-> "idle" ]
    /\ reqPath = [ r \in Requests |-> "" ]
    /\ reqOpts = [ r \in Requests |-> NoOptions ]
    /\ cacheFile = [ r \in Requests |-> NoFile ]
    /\ cacheRead = [ r \in Requests |-> "none" ]
    /\ cacheWrite = [ r \in Requests |-> "none" ]
    /\ sheetSt = [ r \in Requests |-> << >> ]
    /\ completed = [ r \in Requests |-> << >> ]
    /\ poolSize = [ r \in Requests |-> 0 ]
    /\ lateStarts = [ r \in Requests |-> {} ]
    /\ reqAnalysis = [ r \in Requests |-> NilAnalysis ]
    /\ reqErr = [ r \in Requests |-> Nil ]
    /\ ret = [ r \in Requests |-> NotReturned ]
    /\ reqTask = [ r \in Requests |-> NoTask ]
    /\ events = << >>

\* No handler beside AnalyzeExcelFile has been called.
HandlersAtRest ==
    /\ configLLM = UnmarshalLLM(viperSettings)
    /\ preview = NotPreviewed
    /\ appConfig = NoAppConfig
    /\ currentRegion = NoCurrent
    /\ setRet = NotSelected
    /\ picked = NotPicked
    /\ gen = GenIdle
    /\ genCalls = 0
    /\ llmCalls = 0
    /\ exec = ExecIdle
    /\ execCalls = 0
    /\ taskQueue = << >>
    /\ enqueued = << >>
    /\ proc = ProcIdle

Init ==
    /\ StagesAtRest
    /\ viperSettings \in LoadedSettings
    /\ AppInit
    /\ HandlersAtRest

\* The application as started with the default switches, no call made.
AppAtRest ==
    /\ viperSettings = DefaultSettings
    /\ AppInit

\* The steps the handler takes on its own goroutine: its loads, stores and
\* events.
HandlerSteps(r) ==
    \/ \E k \in 1..Len(OptionOrder) : ReadOption(r, k)
    \/ ReadCacheEnabled(r)
    \/ ReadCacheDir(r)
    \/ Finish(r)
    \/ StoreAnalysis(r)
    \/ StorePath(r)
    \/ Return(r)

\* The steps that wait for the cache file or for the engine.
EngineSteps(r) ==
    \/ \E readOK \in BOOLEAN : CacheLookup(r, readOK)
    \/ \E s \in 1..NumSheets : StartSheet(r, s)
    \/ \E s \in 1..NumSheets, ok \in BOOLEAN : FinishSheet(r, s, ok)
    \/ \E writeOK \in BOOLEAN : AnalysisReturns(r, writeOK)

\* The steps of an AnalyzeExcelFile call after its first.
Proceed(r) == HandlerSteps(r) \/ EngineSteps(r)

\* The steps of one AnalyzeExcelFile call.
Analyze(r) ==
    \/ \E p \in Paths : Call(r, p)
    \/ Proceed(r)

Env ==
    \/ \E u \in SheetsUpdates, jsonOK \in BOOLEAN : UpdateAppConfig(u, jsonOK)
    \/ Reload
    \/ OnShutdown

\* Concurrent calls: the frontend issues up to NumRequests calls that overlap,
\* the configuration staying as it was loaded.
Next == (\E r \in Requests : Analyze(r)) \/ OnShutdown

Spec == Init /\ [][Next]_vars

\* One analysis call at a time, with configuration updates, reloads and the
\* shutdown overlapping every step of it.
NextSeq == Analyze(1) \/ Returned(1) \/ Env

SpecSeq == Init /\ [][NextSeq]_vars

\* Sequential calls while the frontend switches advanced detection on and off.
NextAdvanced ==
    \/ Analyze(1)
    \/ Returned(1)
    \/ \E u \in AdvancedUpdates, jsonOK \in BOOLEAN : UpdateAppConfig(u, jsonOK)
    \/ Reload

SpecAdvanced == Init /\ [][NextAdvanced]_vars

\* One analysis call at a time with region previews alongside.
NextSession ==
    \/ Analyze(1)
    \/ Returned(1)
    \/ Preview

SpecSession == Init /\ [][NextSession]_vars

\* One analysis call at a time with region selections alongside.
NextSelection ==
    \/ Analyze(1)
    \/ Returned(1)
    \/ Select(PreviewIndexes)

SpecSelection == Init /\ [][NextSelection]_vars

\* One analysis call at a time with file selections and region previews
\* alongside.
NextFile ==
    \/ Analyze(1)
    \/ Returned(1)
    \/ \E chosen \in DialogChoices, dialogOK \in BOOLEAN : SelectExcelFile(chosen, dialogOK)
    \/ Preview

SpecFile == Init /\ [][NextFile]_vars

\* The indexes the frontend selects while scripts are generated: the first
\* region and the last region of the largest workbook.
GenerateIndexes == { 0, NumSheets }

\* One analysis call at a time with region selections and script generation
\* alongside.
NextGenerate ==
    \/ Analyze(1)
    \/ Returned(1)
    \/ Select(GenerateIndexes)
    \/ GenerateCall
    \/ GenerateSteps
    \/ \E llmOK \in BOOLEAN : GenerateReturns(llmOK)
    \/ GenerateDone

\* The application as started with the default switches, no handler called.
InitDefault == StagesAtRest /\ AppAtRest /\ HandlersAtRest

SpecGenerate == InitDefault /\ [][NextGenerate]_vars

\* The workbook analysed while the tasks run.
TaskPaths == { "b.xlsx" }

\* The three handlers that run a task, each on a goroutine of its own, with the
\* first region selected alongside.
NextTasks ==
    \/ \E p \in TaskPaths : Call(1, p)
    \/ Proceed(1)
    \/ Returned(1)
    \/ Select({ 0 })
    \/ GenerateCall
    \/ GenerateSteps
    \/ \E llmOK \in BOOLEAN : GenerateReturns(llmOK)
    \/ GenerateDone
    \/ ExecuteCall
    \/ ExecuteSteps
    \/ \E ok \in BOOLEAN : ExecuteReturns(ok)
    \/ ExecuteDone

\* What the code guarantees: the goroutine of a handler keeps running, so the
\* handler's own steps are taken, and the analysis works through the finitely
\* many sheets of a local file and returns.  Nothing makes the LLM client
\* (main.go:626) or the VBA executor (main.go:720) return: the calls carry no
\* deadline and no cancellation.
FairTasks ==
    /\ WF_vars(HandlerSteps(1))
    /\ WF_vars(EngineSteps(1))
    /\ WF_vars(GenerateSteps)
    /\ WF_vars(ExecuteSteps)

SpecTasks == InitDefault /\ [][NextTasks]_vars /\ FairTasks

\* The concurrency limits the configuration file sets: one sheet at a time, or
\* the default.
ConcurrencyLimits == { 1, DefaultMaxConcurrency }

\* The application as started with a configured concurrency limit.
InitLimit ==
    /\ StagesAtRest
    /\ viperSettings \in { Set(DefaultSettings, ("system.max_concurrency" :> Num(n))) :
                              n \in ConcurrencyLimits }
    /\ AppInit
    /\ HandlersAtRest

\* One analysis call at a time under the configured limit.
NextLimit == Analyze(1) \/ Returned(1)

SpecLimit == InitLimit /\ [][NextLimit]_vars

\* The background task processor with callers placing tasks on its queue.
NextProcessor ==
    \/ \E id \in QueuedIDs : Enqueue(id)
    \/ Dequeue
    \/ \E panics \in BOOLEAN : ExecuteTask(panics)
    \/ CompleteTask

\* The processor's goroutine, started by NewApp, keeps running.
FairProcessor == WF_vars(Dequeue \/ (\E panics \in BOOLEAN : ExecuteTask(panics)) \/ CompleteTask)

SpecProcessor == InitDefault /\ [][NextProcessor]_vars /\ FairProcessor

\* GetAppConfig under any loaded configuration, with configuration updates.
InitConfig ==
    /\ StagesAtRest
    /\ viperSettings \in { Set(settings, ("llm.provider" :> Str(llm.Provider))
                                         @@ ("llm.api_key" :> Str(llm.APIKey))) :
                              settings \in LoadedSettings, llm \in LLMConfigs }
    /\ AppInit
    /\ configLLM = UnmarshalLLM(viperSettings)
    /\ preview = NotPreviewed
    /\ appConfig = NoAppConfig
    /\ currentRegion = NoCurrent
    /\ setRet = NotSelected
    /\ picked = NotPicked
    /\ gen = GenIdle
    /\ genCalls = 0
    /\ llmCalls = 0
    /\ exec = ExecIdle
    /\ execCalls = 0
    /\ taskQueue = << >>
    /\ enqueued = << >>
    /\ proc = ProcIdle

NextConfig ==
    \/ GetAppConfig
    \/ \E u \in ConfigUpdates, jsonOK \in BOOLEAN : UpdateAppConfig(u, jsonOK)
    \/ Reload

SpecConfig == InitConfig /\ [][NextConfig]_vars

\* One segmentation pass over any sheet of the bounded size.
InitSegment ==
    /\ AppAtRest /\ HandlersAtRest /\ NoRegion /\ NoLetter /\ NoRegionSet
    /\ grid \in Grids
    /\ segRegions = << >>
    /\ segmented = FALSE

NextSegment == SegmentSheet

SpecSegment == InitSegment /\ [][NextSegment]_vars

\* The stages of one region, from the headed region to the prompt data.
InitRegion ==
    /\ AppAtRest /\ HandlersAtRest /\ NoSheet /\ NoLetter /\ NoRegionSet
    /\ regionRows \in SeqsUpTo(RowValues, MaxDataRows)
    /\ maxSamples \in { 2, DefaultMaxSamples }
    /\ \E hdrs \in HeaderRows :
          dataRange = [ Headers |-> hdrs, HasHeaders |-> TRUE,
                        DataRows |-> Len(regionRows), DataTypes |-> EmptyMap,
                        SampleData |-> << >> ]
    /\ regionPc = "headed"
    /\ promptData = NoPrompt

NextRegion ==
    \/ InferTypes
    \/ ExtractSamples
    \/ \E maxRows \in MaxSampleRowsValues : BuildPromptData(maxRows)

SpecRegion == InitRegion /\ [][NextRegion]_vars

\* One call of columnLetterFromIndex for any index up to MaxColIndex.
InitLetters ==
    /\ AppAtRest /\ HandlersAtRest /\ NoSheet /\ NoRegion /\ NoRegionSet
    /\ colIndex \in -1..MaxColIndex
    /\ colLetter = << >>
    /\ lettered = FALSE

NextLetters == ColumnLetter

SpecLetters == InitLetters /\ [][NextLetters]_vars

\* The names found in the name columns of the workbook.
RelNames == { "Alice", "Bob", "Carol" }

\* A region with the given headers and sample rows, its types inferred.
TypedRegion(sheet, hdrs, rows) ==
    [ SheetName |-> sheet, Row |-> 1, Col |-> 1, Headers |-> hdrs,
      DataTypes |-> TypeMap(hdrs, rows), SampleData |-> rows,
      Relationships |-> << >> ]

\* One run of RelationshipInferrer over a two-column region on sheet 1 and a
\* one-column region on sheet 2.
InitRelations ==
    /\ AppAtRest /\ HandlersAtRest /\ NoSheet /\ NoRegion /\ NoLetter
    /\ \E rows1 \in SeqsUpTo(RelNames \X { "Alice", "Bob" }, MaxDataRows),
          rows2 \in SeqsUpTo({ << n >> : n \in RelNames }, MaxDataRows) :
          relIn = << TypedRegion(1, << "CustomerName", "SalesRep" >>, rows1),
                     TypedRegion(2, << "Name" >>, rows2) >>
    /\ relOut = << >>
    /\ related = FALSE

NextRelations == InferRelationships

SpecRelations == InitRelations /\ [][NextRelations]_vars

\* ------------------------------------------------------------- claims
SamePrint(r1, r2) == reqPath[r1] = reqPath[r2] /\ reqOpts[r1] = reqOpts[r2]

\* C1: of the concurrent requests that carry the same fingerprint and found no
\* cached entry, at most one runs the underlying analysis; the others wait for
\* it instead of starting their own.
C1_OneComputationPerFingerprint ==
    \A r1, r2 \in Requests :
        ( /\ r1 # r2
          /\ SamePrint(r1, r2)
          /\ cacheRead[r1] = "miss" /\ cacheRead[r2] = "miss" )
        => ~(pc[r1] = "compute" /\ pc[r2] = "compute")

\* C2: concurrent requests with the same fingerprint end with the identical
\* result: two such requests that are both about to return hold the same
\* analysis and the same error.
C2_ConcurrentRequestsIdentical ==
    \A r1, r2 \in Requests :
        ( /\ r1 # r2
          /\ SamePrint(r1, r2)
          /\ cacheRead[r1] # "none" /\ cacheRead[r2] # "none"
          /\ pc[r1] = "finish" /\ pc[r2] = "finish" )
        => (reqAnalysis[r1] = reqAnalysis[r2] /\ reqErr[r1] = reqErr[r2])

\* The positions of a call between its result and its return.
AfterResult == { "finish", "store", "path", "return" }

\* C3: a cache hit hands back the stored analysis as it is: the step that reads
\* it starts no analysis and writes no cache file, and the call then returns
\* exactly the analysis it read, again without analysing or writing.
C3_CacheHitReturnsCached ==
    [][ \A r \in Requests :
          /\ (cacheRead[r] = "none" /\ cacheRead'[r] = "hit") =>
                /\ reqAnalysis'[r] = cache[cacheFile[r]]
                /\ pc'[r] = "finish"
                /\ sheetSt'[r] = << >>
                /\ ingestCalls' = ingestCalls
                /\ cache' = cache
          /\ (cacheRead[r] = "hit" /\ pc[r] \in AfterResult) =>
                /\ reqAnalysis'[r] = reqAnalysis[r]
                /\ pc'[r] # pc[r] =>
                      /\ pc'[r] \in AfterResult \cup { "done" }
                      /\ pc'[r] = "done" =>
                            ret'[r] = [ analysis |-> reqAnalysis[r], err |-> Nil ]
                      /\ sheetSt'[r] = << >>
                      /\ ingestCalls' = ingestCalls
                      /\ cache' = cache
      ]_vars

C3_Witness ==
    \E r \in Requests :
        /\ pc[r] = "done" /\ cacheRead[r] = "hit"
        /\ ret[r].err = Nil /\ ret[r].analysis # NilAnalysis
        /\ ret[r].analysis = cache[cacheFile[r]]

\* C4: the fingerprint covers the limit configuration, so a call never returns
\* an analysis that was computed under limits other than its own: the analysis
\* a call returns covers exactly the sheets its own max-sheets limit admits.
C4_NoAnalysisFromOtherLimits ==
    \A r \in Requests :
        (pc[r] = "done" /\ ret[r].err = Nil /\ ret[r].analysis # NilAnalysis)
        => ret[r].analysis.SheetNames
               = SheetSeq(SheetsToAnalyze(reqPath[r], reqOpts[r]))

\* C5: a cache failure never fails the analysis.  A call whose cache read
\* failed has run the analysis on every sheet its options admit and returns
\* its outcome, as after a miss; a call whose cache write failed still returns
\* the computed analysis and no error.
C5_CacheFailureNonFatal ==
    \A r \in Requests :
        pc[r] = "done" =>
            /\ cacheRead[r] = "failed" =>
                  /\ poolSize[r] \in EnginePools
                  /\ Len(completed[r]) = SheetsToAnalyze(reqPath[r], reqOpts[r])
                  /\ Readable(r) # {} =>
                        (ret[r].err = Nil /\ ret[r].analysis = EngineResult(r).analysis)
                  /\ ret[r].err # Nil => Readable(r) = {}
            /\ cacheWrite[r] = "failed" =>
                  (ret[r].err = Nil /\ ret[r].analysis = EngineResult(r).analysis)

C5_Witness ==
    \E r \in Requests :
        /\ pc[r] = "done"
        /\ cacheRead[r] = "failed" /\ cacheWrite[r] = "failed"
        /\ ret[r].err = Nil /\ ret[r].analysis # NilAnalysis

C7_NoSheetStartsAfterCancel ==
    [][ cancelled =>
          \A r \in Requests : \A s \in DOMAIN sheetSt'[r] :
              sheetSt'[r][s] = "running" =>
                  (s \in DOMAIN sheetSt[r] /\ sheetSt[r][s] = "running")
      ]_vars

RegionBefore(a, b) ==
    \/ a.SheetName < b.SheetName
    \/ /\ a.SheetName = b.SheetName
       /\ (a.Row < b.Row \/ (a.Row = b.Row /\ a.Col < b.Col))

Ordered(regions) ==
    \A i, j \in 1..Len(regions) : i < j => RegionBefore(regions[i], regions[j])

\* C9: the regions of a returned analysis are in sheet order, then row-major
\* within a sheet, in whatever order the per-sheet workers completed.
C9_DeterministicRegionOrder ==
    \A r \in Requests :
        (pc[r] = "done" /\ ret[r].err = Nil /\ ret[r].analysis # NilAnalysis)
        => Ordered(ret[r].analysis.AllRanges)

C9_Witness ==
    \E r \in Requests :
        /\ pc[r] = "done" /\ ret[r].err = Nil
        /\ Len(completed[r]) >= 2
        /\ completed[r][1] > completed[r][2]
        /\ Readable(r) = DOMAIN sheetSt[r]
        /\ Len(ret[r].analysis.AllRanges) >= 3

RegionSet(regions) == { regions[i] : i \in 1..Len(regions) }

\* C10: an unreadable sheet does not invalidate the others.  A call that ran
\* the analysis and read at least one sheet returns no error, its analysis
\* carries every region of every readable sheet and a note for each unreadable
\* one; only a call that could read no sheet at all gets an error.
C10_PartialSuccess ==
    \A r \in Requests :
        (pc[r] = "done" /\ sheetSt[r] # << >>) =>
            /\ Readable(r) # {} =>
                  /\ ret[r].err = Nil
                  /\ ret[r].analysis # NilAnalysis
                  /\ ret[r].analysis.Notes = Unreadable(r)
                  /\ \A s \in Readable(r) :
                        RegionSet(RegionsOf(reqPath[r], s))
                            \subseteq { [ rg EXCEPT !.Relationships = << >> ] :
                                          rg \in RegionSet(ret[r].analysis.AllRanges) }
            /\ ret[r].err # Nil => Readable(r) = {}

C10_Witness ==
    \E r \in Requests :
        /\ pc[r] = "done"
        /\ Readable(r) # {} /\ Unreadable(r) # {}
        /\ ret[r].err = Nil
        /\ ret[r].analysis.Notes = Unreadable(r)

RegionCells(rect) == (rect.top..rect.bottom) \X (rect.left..rect.right)

\* C11: no two segRegions emitted for a sheet share a cell; clusters whose
\* bounding rectangles overlap have been merged into one region.
C11_RegionsDisjoint ==
    segmented =>
        \A i, j \in 1..Len(segRegions) :
            i # j => RegionCells(segRegions[i]) \cap RegionCells(segRegions[j]) = {}

C11_Witness ==
    /\ segmented
    /\ \E a, b \in Clusters(grid) :
          a # b /\ RectsOverlap(BoundingRect(a), BoundingRect(b))
    /\ Len(segRegions) < Cardinality(Clusters(grid))

\* The occupied rows r1 < r2 have only fully blank rows between them.
BlankBetween(g, r1, r2) ==
    /\ r1 \in RowsOf(g) /\ r2 \in RowsOf(g)
    /\ r1 + 1 < r2
    /\ \A r \in (r1 + 1)..(r2 - 1) : r \notin RowsOf(g)

Spans(rect, r1, r2) == rect.top <= r1 /\ r2 <= rect.bottom

\* C12: tables separated by two or more fully blank rows end in different
\* segRegions, whose bounding boxes do not overlap: no region reaches across the
\* blank rows.  Tables separated by exactly one fully blank row (and not
\* pulled apart by a run of blank columns) end in one merged region: a single
\* region holds the rows on both sides of the blank row.
C12_BlankRowSeparation ==
    segmented =>
        \A r1, r2 \in 1..GridRows :
            BlankBetween(grid, r1, r2) =>
                /\ r2 - r1 >= 3 =>
                      /\ \A i \in 1..Len(segRegions) : ~Spans(segRegions[i], r1, r2)
                      /\ \E i, j \in 1..Len(segRegions) :
                            /\ segRegions[i].bottom <= r1 /\ r2 <= segRegions[j].top
                            /\ ~RectsOverlap(segRegions[i], segRegions[j])
                /\ (r2 - r1 = 2 /\ ColBreaks(grid) = {}) =>
                      \E i \in 1..Len(segRegions) :
                          /\ Spans(segRegions[i], r1, r2)
                          /\ \A c \in grid :
                                c[1] \in {r1, r2} => c \in RegionCells(segRegions[i])

C12_Witness ==
    /\ segmented
    /\ \E r \in 1..GridRows : BlankBetween(grid, r, r + 3)
    /\ Len(segRegions) = 2
    /\ segRegions[1].right - segRegions[1].left >= 1
    /\ segRegions[2].right - segRegions[2].left >= 1

\* The first n rows of `rows` are exactly `out`.
LeadingRows(out, rows, n) ==
    /\ Len(out) = n
    /\ \A i \in 1..n : out[i] = rows[i]

\* C13: the sample rows of a region are its first min(cap, data rows) rows in
\* document order, so they number at most the cap and at most the region's
\* rows; limitSampleData hands on the leading rows of its input, at most
\* maxRows of them.
C13_SampleRowsBounded ==
    /\ regionPc \in { "sampled", "prompted" } =>
          /\ LeadingRows(dataRange.SampleData, regionRows,
                         Min(maxSamples, Len(regionRows)))
          /\ Len(dataRange.SampleData) <= maxSamples
          /\ Len(dataRange.SampleData) <= dataRange.DataRows
    /\ (regionPc = "prompted" /\ promptData.MaxSampleRows >= 0) =>
          /\ ~promptData.Panicked
          /\ LeadingRows(promptData.SampleDataLimited, dataRange.SampleData,
                         Min(promptData.MaxSampleRows, Len(dataRange.SampleData)))
          /\ Len(promptData.SampleDataLimited) <= promptData.MaxSampleRows
          /\ Len(promptData.SampleDataLimited) <= dataRange.DataRows

C13_Witness ==
    /\ regionPc = "prompted"
    /\ promptData.MaxSampleRows = 1
    /\ Len(dataRange.SampleData) = 2
    /\ Len(regionRows) = 3
    /\ promptData.SampleDataLimited = << regionRows[1] >>
    /\ regionRows[1] # regionRows[2]

HeaderNames(dr) == { dr.Headers[c] : c \in 1..Len(dr.Headers) }

\* C14: once the types of a region are inferred its type map has exactly one
\* entry per header name: every header has a type, and no type is recorded for
\* a name that is not a header.
C14_TypeMapMatchesHeaders ==
    regionPc \in { "typed", "sampled", "prompted" } =>
        /\ DOMAIN dataRange.DataTypes = HeaderNames(dataRange)
        /\ \A h \in HeaderNames(dataRange) :
              dataRange.DataTypes[h] \in SemanticTypes \cup { "Unknown" }

C14_Witness ==
    /\ regionPc = "prompted" /\ ~promptData.Panicked
    /\ dataRange.Headers = << "Name", "Age" >>
    /\ dataRange.DataTypes["Name"] = "Unknown"
    /\ dataRange.DataTypes["Age"] = "Number"
    /\ promptData.HeadersFormatted[1].type = "Unknown"
    /\ promptData.HeadersFormatted[2].column = << "B" >>

\* The sampled values of column c: the column's values in the first
\* min(maxSamples, data rows) rows.
SampledKinds(c) ==
    [ i \in 1..Min(maxSamples, Len(regionRows)) |-> ValueKind(regionRows[i][c]) ]

KindSet(kinds) == { kinds[i] : i \in 1..Len(kinds) }

\* C15: a column whose sampled values all parse as numbers is typed Number; a
\* column whose sample mixes text and numeric values is typed Text; a column
\* with an empty sample is typed Unknown.
C15_TypeInference ==
    regionPc \in { "typed", "sampled", "prompted" } =>
        \A c \in 1..Len(dataRange.Headers) :
            (\A d \in 1..Len(dataRange.Headers) :
                 d > c => dataRange.Headers[d] # dataRange.Headers[c]) =>
                LET ty    == dataRange.DataTypes[dataRange.Headers[c]]
                    kinds == KindSet(SampledKinds(c))
                IN  /\ kinds = { "Number" } => ty = "Number"
                    /\ ("Text" \in kinds /\ "Number" \in kinds) => ty = "Text"
                    /\ kinds = {} => ty = "Unknown"

C15_Witness ==
    /\ regionPc = "typed"
    /\ dataRange.Headers = << "Name", "Age" >>
    /\ SampledKinds(2) = << "Number", "Text", "Number" >>
    /\ dataRange.DataTypes["Age"] = "Text"
    /\ KindSet(SampledKinds(1)) = { "Number" }
    /\ dataRange.DataTypes["Name"] = "Number"

RECURSIVE Pow26(_)
Pow26(n) == IF n = 0 THEN 1 ELSE 26 * Pow26(n - 1)

RECURSIVE LabelsShorterThan(_)
\* The number of labels of fewer than n letters.
LabelsShorterThan(n) == IF n <= 1 THEN 0 ELSE Pow26(n - 1) + LabelsShorterThan(n - 1)

\* The label at 0-based position i of the sequence A, B, ..., Z, AA, AB, ...:
\* labels are ordered by length and alphabetically within a length.
NthLabel(i) ==
    LET len    == CHOOSE n \in 1..4 : LabelsShorterThan(n) <= i /\ i < LabelsShorterThan(n + 1)
        offset == i - LabelsShorterThan(len)
    IN  [ p \in 1..len |-> Alphabet[((offset \div Pow26(len - p)) % 26) + 1] ]

\* C16: columnLetterFromIndex(i) is the i-th label of the sequence A, B, ...,
\* Z, AA, AB, ..., and no other index up to the bound gets the same label.
C16_ColumnLetterConvention ==
    (lettered /\ colIndex >= 0) =>
        /\ colLetter = NthLabel(colIndex)
        /\ colIndex = 0 => colLetter = << "A" >>
        /\ colIndex = 25 => colLetter = << "Z" >>
        /\ colIndex = 26 => colLetter = << "A", "A" >>
        /\ colIndex = 27 => colLetter = << "A", "B" >>
        /\ colIndex = 701 => colLetter = << "Z", "Z" >>
        /\ colIndex = 702 => colLetter = << "A", "A", "A" >>
        /\ \A j \in 0..MaxColIndex :
              j # colIndex => columnLetterFromIndex(j) # colLetter

C16_Witness ==
    /\ lettered
    /\ colIndex = 702
    /\ colLetter = << "A", "A", "A" >>

\* C17: a call made with advanced detection disabled returns an analysis in
\* which the relationship list of every region is empty.
C17_NoRelationshipsWhenDisabled ==
    \A r \in Requests :
        ( /\ pc[r] = "done" /\ ret[r].err = Nil /\ ret[r].analysis # NilAnalysis
          /\ ~reqOpts[r].UseAdvanced )
        => \A i \in 1..Len(ret[r].analysis.AllRanges) :
               ret[r].analysis.AllRanges[i].Relationships = << >>

\* The relationships of an analysis, each with the region that holds it:
\* <<i, k>> is the k-th relationship of region i.
RelSlots(rs) ==
    UNION { {i} \X (1..Len(rs[i].Relationships)) : i \in 1..Len(rs) }

\* The unordered pair of columns a relationship connects.
ColumnPair(rs, q) ==
    LET rel == rs[q[1]].Relationships[q[2]]
    IN  { << RangeRef(rs[q[1]]), rel.SourceField >>,
          << rel.TargetRange, rel.TargetField >> }

\* C18: at most one relationship exists per unordered pair of columns, and no
\* relationship has the same region as source and target.
C18_OneRelationshipPerPair ==
    related =>
        /\ \A p, q \in RelSlots(relOut) :
              p # q => ColumnPair(relOut, p) # ColumnPair(relOut, q)
        /\ \A q \in RelSlots(relOut) :
              relOut[q[1]].Relationships[q[2]].TargetRange # RangeRef(relOut[q[1]])

C18_Witness ==
    /\ related
    /\ Qualifies(relIn, 1, 1, 2, 1) /\ Qualifies(relIn, 2, 1, 1, 1)
    /\ ColumnValues(relIn[1], 1) = ColumnValues(relIn[1], 2)
    /\ Len(relOut[1].Relationships) = 2
    /\ relOut[1].Relationships[1].Type = "ManyToOne"
    /\ relOut[2].Relationships = << >>

\* C19: PreviewRegion returns a non-nil INVALID_REGION error and reads no
\* preview data whenever no analysis is loaded or the index is outside
\* 0..len(AllRanges)-1.
C19_InvalidRegionRejected ==
    [][ ( /\ preview'.called /\ ~preview.called
          /\ \/ excelAnalysis = NilAnalysis
             \/ preview'.index < 0
             \/ preview'.index >= Len(excelAnalysis.AllRanges) )
        => (preview'.err = "INVALID_REGION" /\ ~preview'.read)
      ]_vars

\* C20: what GetAppConfig returns does not depend on the LLM API key: every
\* entry it reads into the map is what it would be under a configuration that
\* differs from the active one in the API key only, so the map a call returns
\* is the same under every such configuration.
C20_AppConfigHidesAPIKey ==
    [][ appConfig' # appConfig =>
          \A key \in APIKeys :
              appConfig'.value
                  = ReadAppConfig(MapSoFar(appConfig), NextEntry(appConfig), config,
                                  [ configLLM EXCEPT !.APIKey = key ])
      ]_vars

\* A call has returned a map whose theme was read before loadConfig emptied
\* a.config and whose provider was read after, with an API key configured.
C20_Witness ==
    /\ appConfig.called
    /\ viperSettings["llm.api_key"] = Str("sk-A")
    /\ appConfig.value.ui.Theme = "light"
    /\ appConfig.value.llm = [ provider |-> "" ]

\* The indexes of the regions of an analysis, counted from 0.
RegionIndexes(analysis) ==
    IF analysis = NilAnalysis THEN {} ELSE 0..(Len(analysis.AllRanges) - 1)

\* C21: currentRegion is always -1 or an index into the AllRanges of the
\* loaded analysis, and a SetCurrentRegion call with an invalid index returns
\* false and leaves currentRegion as it was.
C21_CurrentRegionValid ==
    /\ [](currentRegion = -1 \/ currentRegion \in RegionIndexes(excelAnalysis))
    /\ [][ ( /\ setRet'.called /\ ~setRet.called
             /\ setRet'.index \notin RegionIndexes(excelAnalysis) )
           => ~setRet'.ok ]_vars
    /\ [][ currentRegion' # currentRegion
           => currentRegion' \in RegionIndexes(excelAnalysis) ]_vars

\* C22: whenever an analysis is loaded, filePath is the path that analysis
\* was computed from, and PreviewRegion reads the file the regions belong to.
C22_FilePathMatchesAnalysis ==
    /\ [](excelAnalysis # NilAnalysis => filePath = excelAnalysis.path)
    /\ [][ (preview'.read /\ ~preview.read)
           => preview'.file = excelAnalysis.path ]_vars

\* C23: a failed AnalyzeExcelFile leaves the session as it was: no step of a
\* call that ends with an error changes excelAnalysis, filePath or
\* currentRegion (the only steps of a call that change them are the two stores,
\* and a call gets to them with an analysis and no error only), and the call
\* returns a nil analysis with an EXCEL_ANALYSIS_FAILED error.
C23_FailedAnalysisKeepsSession ==
    [][ /\ (pc'[1] # pc[1] /\ pc[1] \notin { "store", "path" })
           => UNCHANGED << excelAnalysis, filePath, currentRegion >>
        /\ pc'[1] \in { "store", "path" }
           => (reqErr'[1] = Nil /\ reqAnalysis'[1] # NilAnalysis)
        /\ (pc'[1] # pc[1] /\ pc[1] \in { "store", "path" })
           => UNCHANGED currentRegion
        /\ (pc[1] = "return" /\ pc'[1] = "done" /\ reqErr[1] # Nil)
           => ret'[1] = [ analysis |-> NilAnalysis, err |-> "EXCEL_ANALYSIS_FAILED" ]
      ]_vars

C23_Witness ==
    /\ pc[1] = "done"
    /\ reqErr[1] # Nil
    /\ ret[1].err = "EXCEL_ANALYSIS_FAILED"
    /\ excelAnalysis # NilAnalysis
    /\ filePath = "a.xlsx"
    /\ reqPath[1] = "b.xlsx"
    /\ currentRegion = NumSheets

\* C24: GenerateVBAScript calls the LLM only when an analysis is loaded and
\* currentRegion is an index into its regions; a call that does not get to the
\* LLM returns NO_EXCEL_DATA or NO_REGION_SELECTED, without a task:start event.
C24_GenerateNeedsRegion ==
    /\ [][ llmCalls' # llmCalls
           => (excelAnalysis # NilAnalysis
               /\ currentRegion \in RegionIndexes(excelAnalysis)) ]_vars
    /\ [][ (gen'.pc = "done" /\ gen.pc \notin { "done", "llm" })
           => /\ gen'.err \in { "NO_EXCEL_DATA", "NO_REGION_SELECTED" }
              /\ gen'.task = NoTask
              /\ events' = events
              /\ llmCalls' = llmCalls ]_vars
    /\ [][ (gen'.pc = "done" /\ gen.pc = "idle")
           => (gen'.err = "NO_EXCEL_DATA" /\ excelAnalysis = NilAnalysis) ]_vars

\* The tasks the handlers can start.
TaskIDs ==
    ({ "analyze" } \X (1..MaxCalls)) \cup ({ "generate", "execute" } \X (1..MaxTasks))

Started(id) == \E i \in 1..Len(events) : events[i] = TaskStart(id)

\* The positions of the task:update events of a task that carry a terminal status.
TerminalUpdates(id) ==
    { i \in 1..Len(events) :
        /\ events[i].name = "task:update"
        /\ events[i].task = id
        /\ events[i].status \in { "completed", "failed" } }

Settled(id) == Cardinality(TerminalUpdates(id)) = 1

\* C25: every task:start event is eventually followed by exactly one
\* task:update event of the same task with status completed or failed, and no
\* task:update comes before the task:start of its task.  Events are never
\* taken back, so a task that has started is settled from the next moment on
\* at which all started tasks are.
C25_TaskEventsPaired ==
    /\ [](\A i \in 1..Len(events) :
            events[i].name = "task:update"
            => /\ \E j \in 1..(i - 1) : events[j] = TaskStart(events[i].task)
               /\ events[i].status \in { "completed", "failed" }
               /\ Settled(events[i].task))
    /\ []<>(\A id \in TaskIDs : Started(id) => Settled(id))

\* The tasks in the order the processor took them from the queue.
DequeueOrder ==
    LET taken == SelectSeq(events, LAMBDA e : e.name = "task:update" /\ e.status = "processing")
    IN  [ i \in 1..Len(taken) |-> taken[i].task ]

\* The status the frontend was told last of a task, "queued" if none yet.
LastStatus(id) ==
    LET told == SelectSeq(events, LAMBDA e : e.name = "task:update" /\ e.task = id)
    IN  IF told = << >> THEN "queued" ELSE told[Len(told)].status

\* The tasks whose execution panicked: those the recovery reported failed.
Panicked(id) ==
    \E i \in 1..Len(events) :
        /\ events[i] = TaskUpdate(id, "failed")
        /\ i < Len(events) \/ proc.pc = "complete"

\* C26: the task processor takes the tasks from the queue in the order they
\* were placed on it; a panic while a task is executed marks that task failed
\* and does not stop the processor; and every task placed on the queue
\* eventually has status completed or failed.
C26_ProcessorContainsCrashes ==
    /\ [](DequeueOrder = SubSeq(enqueued, 1, Len(DequeueOrder)))
    /\ [](\A i \in 1..Len(enqueued) :
            (Panicked(enqueued[i]) /\ proc.task # enqueued[i])
            => LastStatus(enqueued[i]) = "failed")
    /\ []<>(\A i \in 1..Len(enqueued) :
              LastStatus(enqueued[i]) \in { "completed", "failed" })

C26_Witness ==
    /\ Len(enqueued) = MaxQueued
    /\ enqueued[1] = << "job", MaxQueued >>
    /\ LastStatus(enqueued[1]) = "failed"
    /\ Panicked(enqueued[1])
    /\ LastStatus(enqueued[2]) = "completed"
    /\ LastStatus(enqueued[MaxQueued]) = "completed"
    /\ proc = ProcIdle

FailedUpdate == { "INVALID_CONFIG", "CONFIG_SAVE_FAILED" }

\* C27: a failed UpdateAppConfig has no effect: the step on which a call
\* returns an error leaves the active configuration as it was, and once the
\* call has returned, the settings a later successful update or a reload of
\* the configuration applies are those of the active configuration.
C27_FailedUpdateHasNoEffect ==
    /\ [][ (updateErr' # updateErr /\ updateErr' \in FailedUpdate)
             => UNCHANGED << config, configLLM >> ]_vars
    /\ []( (updPc = "idle" /\ updateErr \in FailedUpdate)
            => (config = Unmarshal(viperSettings)
                /\ configLLM = UnmarshalLLM(viperSettings)) )

====
